---- MODULE Spec2Model ----
(***************************************************************************)
(* Model of the go-sknn spatial index (package go_sknn, the top-level      *)
(* adaptive index): the tree of Nodes (node.go of the package), the KNN    *)
(* facade (knn.go) and its best-first search.                              *)
(*                                                                         *)
(* Geometry.  The s2 library is outside the repository; it is modelled by  *)
(* the interface the index uses (Level, Parent, Distance): cells are the   *)
(* intervals of a binary subdivision of a line of 2^FinestLevel positions. *)
(* A cell is [level, pos]; the cell of a location is the level-FinestLevel *)
(* cell at that position.  The zero CellID of the root is the level-0      *)
(* sentinel covering everything.                                           *)
(***************************************************************************)
EXTENDS Integers, Sequences, FiniteSets, TLC

\* ------------------------------------------------------------------ bounds
\* Finest cell level of the geometry (30 in s2).
FinestLevel == 2
\* Number of AddValue calls in a behaviour of Spec.
MaxAdds == 3
\* Number of successful RemoveValue calls in a behaviour of Spec.
MaxRemoves == 1
\* Number of threads that run a call concurrently in a behaviour of SpecConc.
Threads == 2
\* Number of calls a thread makes one after the other in a behaviour of
\* SpecLocks.
MaxCalls == 1
\* Largest number of values a callback collects before it stops the search.
MaxCollect == 2
\* Number of level-0 cells (6 in s2) locations of the v3 index lie in.
Faces == 3
\* NewKNN is called with the precisions -MaxPrecisionInput..MaxPrecisionInput.
MaxPrecisionInput == 64

\* ------------------------------------------------------- program constants
maxValuesPerCell == 8
MinPrecision == 0
MaxPrecision == 30

\* ------------------------------------------------------------------ inputs
LastPos == 2^FinestLevel - 1
\* Locations values are added at: one in the first half of the line and two
\* neighbours at its far end.
Locations == {0, LastPos - 1, LastPos}
\* Focal points of searches: the locations and a point between them.
FocalPoints == Locations \cup {LastPos \div 2}
\* Number of values the index holds in the initial state of Spec: the root
\* leaf is one value short of full.
Prefill == maxValuesPerCell - 1
Keys == 1..(Prefill + MaxAdds)
\* Keys RemoveValue is called with: the first two keys added and every key
\* added to a leaf that was full before.
RemoveIds == {1, 2} \cup (Keys \ (1..maxValuesPerCell))
Payloads == {"p"}
Precisions == 0..FinestLevel
\* How the priority queue breaks ties between equal priorities.
TiePolicies == {"oldest", "newest"}

VARIABLES
    nodes,      \* the Node objects, by identity (1 is KNN.indexRoot)
    lookup,     \* KNN.lookup: key -> Node identity
    precision,  \* KNN.precision
    nextKey,    \* next unused key (keys of AddValue calls are pairwise distinct)
    removes,    \* number of successful RemoveValue calls so far
    last,       \* the last completed call and what it returned
    threads,    \* the calls in progress on concurrent threads
    lookupMutex, \* KNN.lookupMutex, a sync.RWMutex (in v1 the RWMutex KNN embeds)
    pruneMutex, \* KNN.pruneMutex of the v3 index, a sync.RWMutex
    fatal       \* the Go runtime has stopped the process with a fatal error

vars == <<nodes, lookup, precision, nextKey, removes, last, threads,
          lookupMutex, pruneMutex, fatal>>

\* ---------------------------------------------------------------- geometry
LeafCell(loc) == [level |-> FinestLevel, pos |-> loc]

Level(cell) == cell.level

Parent(cell, lvl) ==
    IF lvl >= cell.level THEN [level |-> lvl, pos |-> cell.pos * 2^(lvl - cell.level)]
    ELSE [level |-> lvl, pos |-> cell.pos \div 2^(cell.level - lvl)]

CellLo(cell) == cell.pos * 2^(FinestLevel - cell.level)
CellHi(cell) == CellLo(cell) + 2^(FinestLevel - cell.level) - 1

Distance(cell, point) ==
    IF point < CellLo(cell) THEN CellLo(cell) - point
    ELSE IF point > CellHi(cell) THEN point - CellHi(cell)
    ELSE 0

RootCell == [level |-> 0, pos |-> 0]

\* -------------------------------------------------------------------- Node
Root == 1

NewValue(key, value, cell) == [key |-> key, value |-> value, cell |-> cell]

NewRoot(p) ==
    [cellID |-> RootCell, values |-> <<>>, children |-> <<>>, parent |-> 0,
     valuesMutex |-> 0, maxIndexDepth |-> p]

IndexOfChild(ns, n, childCellID) ==
    LET hits == {i \in 1..Len(ns[n].children) : ns[ns[n].children[i]].cellID = childCellID}
    IN IF hits = {} THEN 0 ELSE CHOOSE i \in hits : \A j \in hits : i <= j

\* Node.GetOrCreateChild run without interference: the child and the new tree.
GetOrCreateChild(ns, n, childCellID) ==
    LET i == IndexOfChild(ns, n, childCellID)
        id == Len(ns) + 1
        child == [cellID |-> childCellID, values |-> <<>>, children |-> <<>>,
                  parent |-> n, valuesMutex |-> 0,
                  maxIndexDepth |-> ns[n].maxIndexDepth]
    IN IF i # 0 THEN [nodes |-> ns, node |-> ns[n].children[i]]
       ELSE [nodes |-> Append([ns EXCEPT ![n].children = Append(@, id)], child),
             node |-> id]

\* Variant of HasRoom: the bound is compared with the length before the append.
HasRoomOffByOne(node) == Len(node.values) <= maxValuesPerCell

\* Variant of HasRoom: the leaf is full one value earlier.
HasRoomStrict(node) == Len(node.values) + 1 < maxValuesPerCell

\* The leaf takes one more value without exceeding maxValuesPerCell.
HasRoom(node) == Len(node.values) + 1 <= maxValuesPerCell

\* Variant of AtMaxDepth: a leaf at the maximum depth is still split.
AtMaxDepthLate(node) == Level(node.cellID) > node.maxIndexDepth

\* The node is at the maximum depth of the index and cannot be split.
AtMaxDepth(node) == Level(node.cellID) >= node.maxIndexDepth

RECURSIVE NodeAddValue(_, _, _, _, _)
RECURSIVE SplitValues(_, _, _, _, _)

\* The loop of the split: each value of the full leaf is added to the child
\* of its cell.  The recursive call is given the cell of the value being
\* inserted (the argument `cell`), as in the code.
SplitValues(ns, n, vals, i, cell) ==
    IF i > Len(vals) THEN ns
    ELSE LET v == vals[i]
             g == GetOrCreateChild(ns, n, Parent(v.cell, Level(ns[n].cellID) + 1))
             r == NodeAddValue(g.nodes, g.node, v.key, v.value, cell)
         IN SplitValues(r.nodes, n, vals, i + 1, cell)

\* Node.AddValue run without interference: the new tree and the returned node.
NodeAddValue(ns, n, key, value, cell) ==
    LET node == ns[n]
        valueChildCell == Parent(cell, Level(node.cellID) + 1)
    IN IF Len(node.children) # 0
       THEN LET g == GetOrCreateChild(ns, n, valueChildCell)
            IN NodeAddValue(g.nodes, g.node, key, value, cell)
       ELSE IF HasRoom(node)
       THEN [nodes |-> [ns EXCEPT ![n].values = Append(@, NewValue(key, value, cell))],
             node |-> n]
       ELSE IF AtMaxDepth(node)
       THEN [nodes |-> [ns EXCEPT ![n].values = Append(@, NewValue(key, value, cell))],
             node |-> n]
       ELSE LET moved == SplitValues(ns, n, node.values, 1, cell)
                cleared == [moved EXCEPT ![n].values = <<>>]
                g == GetOrCreateChild(cleared, n, valueChildCell)
            IN NodeAddValue(g.nodes, g.node, key, value, cell)

IsLeaveNode(ns, n) == Len(ns[n].children) = 0

IndexOfKey(vals, key) ==
    LET hits == {i \in 1..Len(vals) : vals[i].key = key}
    IN IF hits = {} THEN 0 ELSE CHOOSE i \in hits : \A j \in hits : i <= j

\* Variant of NodeRemoveValue: the values behind the removed one move up.
NodeRemoveValueShift(ns, n, key) ==
    LET vals == ns[n].values
        foundIndex == IndexOfKey(vals, key)
    IN IF foundIndex = 0 THEN ns
       ELSE [ns EXCEPT ![n].values =
                SubSeq(vals, 1, foundIndex - 1) \o SubSeq(vals, foundIndex + 1, Len(vals))]

\* Node.RemoveValue: the first value with the key is overwritten by the last
\* value and the list is shortened by one.
NodeRemoveValue(ns, n, key) ==
    LET vals == ns[n].values
        foundIndex == IndexOfKey(vals, key)
    IN IF foundIndex = 0 THEN ns
       ELSE [ns EXCEPT ![n].values =
                SubSeq([vals EXCEPT ![foundIndex] = vals[Len(vals)]], 1, Len(vals) - 1)]

\* ------------------------------------------------------------------ search
NodeItem(n, prio) == [kind |-> "node", node |-> n, prio |-> prio]
ValueItem(v, prio) == [kind |-> "value", value |-> v, prio |-> prio]

\* Variant of ChildItems: the last child is left out.
ChildItemsButLast(ns, n, point) ==
    [i \in 1..(Len(ns[n].children) - 1) |->
        NodeItem(ns[n].children[i], Distance(ns[ns[n].children[i]].cellID, point))]

\* Node.AddChildrenToQueueInterface
ChildItems(ns, n, point) ==
    [i \in 1..Len(ns[n].children) |->
        NodeItem(ns[n].children[i], Distance(ns[ns[n].children[i]].cellID, point))]

\* Variant of ValueItems: the first value is pushed a second time.
ValueItemsAgain(ns, n, point) ==
    [i \in 1..(Len(ns[n].values) + 1) |->
        LET v == ns[n].values[IF i > Len(ns[n].values) THEN 1 ELSE i]
        IN ValueItem(v, Distance(v.cell, point))]

\* Node.AddValuesToQueue
ValueItems(ns, n, point) ==
    [i \in 1..Len(ns[n].values) |->
        ValueItem(ns[n].values[i], Distance(ns[n].values[i].cell, point))]

\* Index of the element a Pop returns: one of minimal priority, the oldest or
\* the newest of them.  best is the index chosen among the first i - 1.
RECURSIVE PopIndexFrom(_, _, _, _)
PopIndexFrom(queue, tie, i, best) ==
    IF i > Len(queue) THEN best
    ELSE IF \/ queue[i].prio < queue[best].prio
            \/ (tie = "newest" /\ queue[i].prio = queue[best].prio)
         THEN PopIndexFrom(queue, tie, i + 1, i)
         ELSE PopIndexFrom(queue, tie, i + 1, best)

PopIndex(queue, tie) == PopIndexFrom(queue, tie, 2, 1)

RemoveAt(queue, i) == SubSeq(queue, 1, i - 1) \o SubSeq(queue, i + 1, Len(queue))

\* The loop of KNN.Search with a callback that always returns false and a
\* context that is never cancelled: the sequence of values handed to the
\* callback.
RECURSIVE SearchLoop(_, _, _, _, _)
SearchLoop(ns, queue, point, tie, emitted) ==
    IF queue = <<>> THEN emitted
    ELSE LET i == PopIndex(queue, tie)
             popped == queue[i]
             rest == RemoveAt(queue, i)
         IN IF popped.kind = "node"
            THEN IF IsLeaveNode(ns, popped.node)
                 THEN SearchLoop(ns, rest \o ValueItems(ns, popped.node, point),
                                 point, tie, emitted)
                 ELSE SearchLoop(ns, rest \o ChildItems(ns, popped.node, point),
                                 point, tie, emitted)
            ELSE SearchLoop(ns, rest, point, tie, Append(emitted, popped.value))

KNNSearch(ns, point, tie) == SearchLoop(ns, <<NodeItem(Root, 0)>>, point, tie, <<>>)

\* The callback of a search and the context it runs under.  The callback
\* collects the values it is handed; it returns true once it holds stopAt
\* values (0: it always returns false) and cancels the context when it is
\* handed value number cancelAt (0: it never cancels).
Callback(stopAt, cancelAt) == [stopAt |-> stopAt, cancelAt |-> cancelAt]

\* callback(value) returns true; collected includes the value just handed.
CallbackStops(cb, collected) == cb.stopAt # 0 /\ Len(collected) >= cb.stopAt

\* Variant of CtxErr: a cancellation before the search began is not seen.
CtxErrAfterEntry(cancelled, cb, collected) ==
    cb.cancelAt # 0 /\ Len(collected) >= cb.cancelAt

\* ctx.Err() != nil: the context was cancelled on entry or by the callback.
CtxErr(cancelled, cb, collected) ==
    cancelled \/ (cb.cancelAt # 0 /\ Len(collected) >= cb.cancelAt)

\* The loop of KNN.Search: the sequence of values handed to the callback.
RECURSIVE SearchLoopCtx(_, _, _, _, _, _, _)
SearchLoopCtx(ns, queue, point, tie, emitted, cancelled, cb) ==
    IF CtxErr(cancelled, cb, emitted) THEN emitted
    ELSE IF queue = <<>> THEN emitted
    ELSE LET i == PopIndex(queue, tie)
             popped == queue[i]
             rest == RemoveAt(queue, i)
         IN IF popped.kind = "node"
            THEN IF IsLeaveNode(ns, popped.node)
                 THEN SearchLoopCtx(ns, rest \o ValueItems(ns, popped.node, point),
                                    point, tie, emitted, cancelled, cb)
                 ELSE SearchLoopCtx(ns, rest \o ChildItems(ns, popped.node, point),
                                    point, tie, emitted, cancelled, cb)
            ELSE LET handed == Append(emitted, popped.value)
                 IN IF CallbackStops(cb, handed) THEN handed
                    ELSE SearchLoopCtx(ns, rest, point, tie, handed, cancelled, cb)

KNNSearchCtx(ns, point, tie, cancelled, cb) ==
    SearchLoopCtx(ns, <<NodeItem(Root, 0)>>, point, tie, <<>>, cancelled, cb)

\* ----------------------------------------------------------- KNN operations
HasValue(id) == id \in DOMAIN lookup

\* sync.RWMutex: the number of goroutines holding it shared and whether one
\* holds it exclusively.  An operation yields the mutex after it and whether
\* the runtime stops the process ("sync: Unlock of unlocked RWMutex",
\* "sync: RUnlock of unlocked RWMutex").
NewRWMutex == [readers |-> 0, writer |-> FALSE]

CanRLock(m) == ~m.writer

RLock(m) == [mutex |-> [m EXCEPT !.readers = @ + 1], fatal |-> FALSE]

RUnlock(m) ==
    IF m.readers = 0 THEN [mutex |-> m, fatal |-> TRUE]
    ELSE [mutex |-> [m EXCEPT !.readers = @ - 1], fatal |-> FALSE]

CanLock(m) == ~m.writer /\ m.readers = 0

Lock(m) == [mutex |-> [m EXCEPT !.writer = TRUE], fatal |-> FALSE]

Unlock(m) ==
    IF ~m.writer THEN [mutex |-> m, fatal |-> TRUE]
    ELSE [mutex |-> [m EXCEPT !.writer = FALSE], fatal |-> FALSE]

NoCall == [op |-> "none"]

\* lookup[id] = node
LookupPut(lk, id, node) == [k \in DOMAIN lk \cup {id} |-> IF k = id THEN node ELSE lk[k]]

\* Variant of LookupDelete: the entry stays.
LookupDeleteNothing(lk, id) == lk

\* delete(lookup, id)
LookupDelete(lk, id) == [k \in DOMAIN lk \ {id} |-> lk[k]]

\* What KNN.AddValue(id, value, lat, long) with valid coordinates makes of the
\* tree and the lookup map.
KNNAddValue(ns, lk, id, value, loc) ==
    LET r == NodeAddValue(ns, Root, id, value, LeafCell(loc))
    IN [nodes |-> r.nodes, lookup |-> LookupPut(lk, id, r.node)]

\* NewKNN(p) for a valid precision.
NewKNN(p) == [nodes |-> <<NewRoot(p)>>, lookup |-> <<>>]

\* The index NewKNN(p) after AddValue of the keys 1..n at one location.
RECURSIVE Filled(_, _, _)
Filled(p, loc, n) ==
    IF n = 0 THEN NewKNN(p)
    ELSE LET before == Filled(p, loc, n - 1)
         IN KNNAddValue(before.nodes, before.lookup, n, "p", loc)

\* An index of a valid precision that holds Prefill values added at one
\* location.
Init ==
    /\ precision \in Precisions
    /\ \E loc \in Locations :
          /\ nodes = Filled(precision, loc, Prefill).nodes
          /\ lookup = Filled(precision, loc, Prefill).lookup
    /\ nextKey = Prefill + 1
    /\ removes = 0
    /\ last = NoCall
    /\ threads = <<>>
    /\ lookupMutex = NewRWMutex
    /\ pruneMutex = NewRWMutex
    /\ fatal = FALSE

\* KNN.AddValue(id, value, lat, long) with valid coordinates.
AddValue(id, value, loc) ==
    /\ id = nextKey
    /\ nextKey <= Prefill + MaxAdds
    /\ LET r == KNNAddValue(nodes, lookup, id, value, loc)
       IN /\ nodes' = r.nodes
          /\ lookup' = r.lookup
    /\ nextKey' = nextKey + 1
    /\ last' = [op |-> "AddValue"]
    /\ UNCHANGED <<precision, removes, threads, lookupMutex, pruneMutex, fatal>>

\* KNN.RemoveValue(id)
RemoveValue(id) ==
    /\ IF id \notin DOMAIN lookup
       THEN /\ last' = [op |-> "RemoveValue", ret |-> FALSE]
            /\ UNCHANGED <<nodes, lookup, removes>>
       ELSE /\ removes < MaxRemoves
            /\ nodes' = NodeRemoveValue(nodes, lookup[id], id)
            /\ lookup' = LookupDelete(lookup, id)
            /\ removes' = removes + 1
            /\ last' = [op |-> "RemoveValue", ret |-> TRUE]
    /\ UNCHANGED <<precision, nextKey, threads, lookupMutex, pruneMutex, fatal>>

\* KNN.Search(ctx, lat, long, callback), callback always false.
Search(point, tie) ==
    /\ last' = [op |-> "Search", point |-> point,
                emitted |-> KNNSearch(nodes, point, tie)]
    /\ UNCHANGED <<nodes, lookup, precision, nextKey, removes, threads, lookupMutex, pruneMutex, fatal>>

Next ==
    \/ \E id \in Keys, value \in Payloads, loc \in Locations : AddValue(id, value, loc)
    \/ \E id \in RemoveIds : RemoveValue(id)
    \/ \E point \in FocalPoints, tie \in TiePolicies : Search(point, tie)

Spec == Init /\ [][Next]_vars

\* The mutating operations alone.
NextMutate ==
    \/ \E id \in Keys, value \in Payloads, loc \in Locations : AddValue(id, value, loc)
    \/ \E id \in RemoveIds : RemoveValue(id)

SpecMutate == Init /\ [][NextMutate]_vars

\* ------------------------------------------- searches that stop or cancel
\* Callbacks that stop after 1..MaxCollect values, callbacks that cancel the
\* context at one of their first MaxCollect values and go on, and the
\* callback that does neither.
Callbacks ==
    {Callback(k, 0) : k \in 1..MaxCollect} \cup {Callback(0, c) : c \in 1..MaxCollect}
    \cup {Callback(0, 0)}

\* KNN.Search(ctx, lat, long, callback) with a context that is cancelled on
\* entry or not, and one of the callbacks.
SearchWith(point, tie, cancelled, cb) ==
    /\ last' = [op |-> "SearchWith", point |-> point, cancelled |-> cancelled,
                cb |-> cb,
                emitted |-> KNNSearchCtx(nodes, point, tie, cancelled, cb)]
    /\ UNCHANGED <<nodes, lookup, precision, nextKey, removes, threads,
                   lookupMutex, pruneMutex, fatal>>

\* A context cancelled on entry goes with the callback that never stops.
NextSearch ==
    \/ \E id \in Keys, value \in Payloads, loc \in Locations : AddValue(id, value, loc)
    \/ \E id \in RemoveIds : RemoveValue(id)
    \/ \E point \in Locations, tie \in TiePolicies, cb \in Callbacks \ {Callback(0, 0)} :
          SearchWith(point, tie, FALSE, cb)
    \/ \E point \in Locations, tie \in TiePolicies :
          SearchWith(point, tie, TRUE, Callback(0, 0))

SpecSearch == Init /\ [][NextSearch]_vars

\* ---------------------------------------- SearchApproximate of the top level
\* KNN.SearchApproximate of the top-level index: its loop is the loop of
\* KNN.Search, values are pushed into the queue one by one.
KNNSearchApproximateCtx(ns, point, tie, cancelled, cb) ==
    SearchLoopCtx(ns, <<NodeItem(Root, 0)>>, point, tie, <<>>, cancelled, cb)

\* KNN.SearchApproximate(ctx, lat, long, callback) with a context that is
\* not cancelled on entry and a callback that stops or never stops.
SearchApproximate(point, tie, cb) ==
    /\ last' = [op |-> "SearchApproximate", point |-> point, cancelled |-> FALSE,
                cb |-> cb,
                emitted |-> KNNSearchApproximateCtx(nodes, point, tie, FALSE, cb)]
    /\ UNCHANGED <<nodes, lookup, precision, nextKey, removes, threads,
                   lookupMutex, pruneMutex, fatal>>

NextApproximate ==
    \/ \E id \in Keys, value \in Payloads, loc \in Locations : AddValue(id, value, loc)
    \/ \E point \in FocalPoints, tie \in TiePolicies,
          cb \in {Callback(k, 0) : k \in 0..MaxCollect} :
          SearchApproximate(point, tie, cb)

SpecApproximate == Init /\ [][NextApproximate]_vars

\* ------------------------------------------------------------ UpsertValue
\* Node.UpdateValue(key, value): every value of the node with the key gets
\* the payload.
NodeUpdateValue(ns, n, key, value) ==
    [ns EXCEPT ![n].values =
        [i \in 1..Len(@) |-> IF @[i].key = key THEN [@[i] EXCEPT !.value = value]
                                               ELSE @[i]]]

\* Payloads UpsertValue is called with: the one values are added with, and
\* another one.
UpsertPayloads == Payloads \cup {"q"}

\* KNN.UpsertValue(id, value, lat, long).  The lookup map is read between
\* lookupMutex.RLock() and lookupMutex.Unlock(); what follows depends on
\* whether the key is stored and whether the node's cell is the cell of the
\* location.
UpsertValue(id, value, loc) ==
    /\ id \in DOMAIN lookup \/ (id = nextKey /\ nextKey <= Prefill + MaxAdds)
    /\ LET cellID == LeafCell(loc)
           rlocked == RLock(lookupMutex)
           ok == id \in DOMAIN lookup
           unlocked == Unlock(rlocked.mutex)
       IN IF unlocked.fatal
          THEN /\ fatal' = TRUE
               /\ lookupMutex' = unlocked.mutex
               /\ UNCHANGED <<nodes, lookup, nextKey>>
          ELSE /\ fatal' = FALSE
               /\ lookupMutex' = unlocked.mutex
               /\ IF ~ok
                  THEN LET r == KNNAddValue(nodes, lookup, id, value, loc)
                       IN /\ nodes' = r.nodes
                          /\ lookup' = r.lookup
                          /\ nextKey' = nextKey + 1
                  ELSE IF nodes[lookup[id]].cellID = cellID
                  THEN /\ nodes' = NodeUpdateValue(nodes, lookup[id], id, value)
                       /\ UNCHANGED <<lookup, nextKey>>
                  ELSE LET removed == NodeRemoveValue(nodes, lookup[id], id)
                           r == KNNAddValue(removed, LookupDelete(lookup, id),
                                            id, value, loc)
                       IN /\ nodes' = r.nodes
                          /\ lookup' = r.lookup
                          /\ UNCHANGED nextKey
    /\ last' = [op |-> "UpsertValue", id |-> id]
    /\ UNCHANGED <<precision, removes, threads, pruneMutex>>

\* The process runs: no fatal error has stopped it.
Running == fatal = FALSE

\* The mutating operations with UpsertValue.
NextUpsert ==
    \/ Running /\ \E id \in Keys, value \in Payloads, loc \in Locations :
                     AddValue(id, value, loc)
    \/ Running /\ \E id \in RemoveIds : RemoveValue(id)
    \/ Running /\ \E id \in RemoveIds \cup {nextKey}, value \in UpsertPayloads,
                      loc \in Locations : UpsertValue(id, value, loc)

SpecUpsert == Init /\ [][NextUpsert]_vars

\* ------------------------------------------------- concurrent executions
\* Threads run KNN.AddValue and KNN.Search step by step.  A step is one
\* critical section of a mutex (a section of childMutex holds no other lock
\* and is one step); Node.valuesMutex is held across steps by a split and is
\* a field of the node: 0 when free, else the thread holding it exclusively.
ThreadIds == 1..Threads

\* The activation of Node.AddValue(key, value, cell) on a node.
Frame(n, key, value, cell) ==
    [node |-> n, key |-> key, value |-> value, cell |-> cell,
     pc |-> "hasChildren", i |-> 0, vals |-> <<>>]

TopFrame(t) == threads[t].stack[Len(threads[t].stack)]

SetTop(stack, f) == [stack EXCEPT ![Len(stack)] = f]

Push(stack, f) == Append(stack, f)

Pop(stack) == SubSeq(stack, 1, Len(stack) - 1)

\* A call of Node.AddValue has returned to the activations on the stack: a
\* split loop goes on with its next value; an activation that made the call
\* in its return statement unlocks its valuesMutex (deferred) and returns too.
RECURSIVE Unwind(_, _)
Unwind(ns, stack) ==
    IF stack = <<>> THEN [nodes |-> ns, stack |-> stack]
    ELSE LET f == stack[Len(stack)]
         IN IF f.pc = "inLoop"
            THEN [nodes |-> ns,
                  stack |-> SetTop(stack, [f EXCEPT !.pc = "split", !.i = @ + 1])]
            ELSE Unwind([ns EXCEPT ![f.node].valuesMutex = 0], Pop(stack))

\* Node.AddValue lines 104-106: the test for children under childMutex.
AddHasChildren(t) ==
    /\ threads[t].op = "AddValue" /\ threads[t].pc = "node"
    /\ TopFrame(t).pc = "hasChildren"
    /\ LET f == TopFrame(t)
           hasChildren == Len(nodes[f.node].children) # 0
       IN threads' = [threads EXCEPT ![t].stack =
              SetTop(@, [f EXCEPT !.pc = IF hasChildren THEN "descend" ELSE "lock"])]
    /\ UNCHANGED <<nodes, lookup, precision, nextKey, removes, last, lookupMutex, pruneMutex, fatal>>

\* Node.AddValue line 109: the call is handed to the child of the value's cell.
AddDescend(t) ==
    /\ threads[t].op = "AddValue" /\ threads[t].pc = "node"
    /\ TopFrame(t).pc = "descend"
    /\ LET f == TopFrame(t)
           valueChildCell == Parent(f.cell, Level(nodes[f.node].cellID) + 1)
           g == GetOrCreateChild(nodes, f.node, valueChildCell)
       IN /\ nodes' = g.nodes
          /\ threads' = [threads EXCEPT ![t].stack =
                 SetTop(@, Frame(g.node, f.key, f.value, f.cell))]
    /\ UNCHANGED <<lookup, precision, nextKey, removes, last, lookupMutex, pruneMutex, fatal>>

\* Node.AddValue lines 112-125: valuesMutex is taken; a leaf with room or at
\* the maximum depth appends the value and returns, otherwise the split
\* begins with the lock held.
AddLock(t) ==
    /\ threads[t].op = "AddValue" /\ threads[t].pc = "node"
    /\ TopFrame(t).pc = "lock"
    /\ nodes[TopFrame(t).node].valuesMutex = 0
    /\ LET f == TopFrame(t)
           node == nodes[f.node]
       IN IF HasRoom(node) \/ AtMaxDepth(node)
          THEN LET appended == [nodes EXCEPT ![f.node].values =
                                    Append(@, NewValue(f.key, f.value, f.cell))]
                   u == Unwind(appended, Pop(threads[t].stack))
               IN /\ nodes' = u.nodes
                  /\ threads' = [threads EXCEPT
                         ![t].stack = u.stack,
                         ![t].ret = IF u.stack = <<>> THEN f.node ELSE @,
                         ![t].pc = IF u.stack = <<>> THEN "lookup" ELSE @]
          ELSE /\ nodes' = [nodes EXCEPT ![f.node].valuesMutex = t]
               /\ threads' = [threads EXCEPT ![t].stack =
                      SetTop(@, [f EXCEPT !.pc = "split", !.i = 1, !.vals = node.values])]
    /\ UNCHANGED <<lookup, precision, nextKey, removes, last, lookupMutex, pruneMutex, fatal>>

\* Node.AddValue lines 128-130: one round of the split loop up to the call of
\* AddValue on the child.
AddSplitNext(t) ==
    /\ threads[t].op = "AddValue" /\ threads[t].pc = "node"
    /\ TopFrame(t).pc = "split"
    /\ TopFrame(t).i <= Len(TopFrame(t).vals)
    /\ LET f == TopFrame(t)
           v == f.vals[f.i]
           g == GetOrCreateChild(nodes, f.node,
                                 Parent(v.cell, Level(nodes[f.node].cellID) + 1))
       IN /\ nodes' = g.nodes
          /\ threads' = [threads EXCEPT ![t].stack =
                 Push(SetTop(@, [f EXCEPT !.pc = "inLoop"]),
                      Frame(g.node, v.key, v.value, f.cell))]
    /\ UNCHANGED <<lookup, precision, nextKey, removes, last, lookupMutex, pruneMutex, fatal>>

\* Node.AddValue lines 132-134: the values are dropped and the new value is
\* handed to the child of its cell.
AddSplitEnd(t) ==
    /\ threads[t].op = "AddValue" /\ threads[t].pc = "node"
    /\ TopFrame(t).pc = "split"
    /\ TopFrame(t).i > Len(TopFrame(t).vals)
    /\ LET f == TopFrame(t)
           valueChildCell == Parent(f.cell, Level(nodes[f.node].cellID) + 1)
           g == GetOrCreateChild([nodes EXCEPT ![f.node].values = <<>>],
                                 f.node, valueChildCell)
       IN /\ nodes' = g.nodes
          /\ threads' = [threads EXCEPT ![t].stack =
                 Push(SetTop(@, [f EXCEPT !.pc = "inFinal"]),
                      Frame(g.node, f.key, f.value, f.cell))]
    /\ UNCHANGED <<lookup, precision, nextKey, removes, last, lookupMutex, pruneMutex, fatal>>

\* KNN.AddValue lines 45-47: the returned node is recorded in the lookup map.
AddLookup(t) ==
    /\ threads[t].op = "AddValue" /\ threads[t].pc = "lookup"
    /\ CanLock(lookupMutex)
    /\ lookup' = LookupPut(lookup, threads[t].id, threads[t].ret)
    /\ threads' = [threads EXCEPT ![t].pc = "done"]
    /\ UNCHANGED <<nodes, precision, nextKey, removes, last, lookupMutex, pruneMutex, fatal>>

\* Pops until a node is popped or the queue is empty; each popped value goes
\* to the callback, which returns false.
RECURSIVE Drain(_, _, _)
Drain(queue, tie, emitted) ==
    IF queue = <<>> THEN [queue |-> queue, emitted |-> emitted, node |-> 0]
    ELSE LET i == PopIndex(queue, tie)
             popped == queue[i]
             rest == RemoveAt(queue, i)
         IN IF popped.kind = "node"
            THEN [queue |-> rest, emitted |-> emitted, node |-> popped.node]
            ELSE Drain(rest, tie, Append(emitted, popped.value))

\* KNN.Search lines 139-146: the root is pushed and popped.
SearchBegin(t) ==
    /\ threads[t].op = "Search" /\ threads[t].pc = "start"
    /\ threads' = [threads EXCEPT ![t].pc = "isLeaf", ![t].node = Root,
                                  ![t].stored = DOMAIN lookup]
    /\ UNCHANGED <<nodes, lookup, precision, nextKey, removes, last, lookupMutex, pruneMutex, fatal>>

\* KNN.Search line 152: node.IsLeaveNode().
SearchIsLeaf(t) ==
    /\ threads[t].op = "Search" /\ threads[t].pc = "isLeaf"
    /\ threads' = [threads EXCEPT ![t].pc = "load",
                                  ![t].leaf = IsLeaveNode(nodes, threads[t].node)]
    /\ UNCHANGED <<nodes, lookup, precision, nextKey, removes, last, lookupMutex, pruneMutex, fatal>>

\* KNN.Search lines 153-155 and the following pops: the values of the node
\* (read under valuesMutex) or its children are pushed.
SearchLoad(t) ==
    /\ threads[t].op = "Search" /\ threads[t].pc = "load"
    /\ threads[t].leaf => nodes[threads[t].node].valuesMutex = 0
    /\ LET th == threads[t]
           items == IF th.leaf THEN ValueItems(nodes, th.node, th.point)
                    ELSE ChildItems(nodes, th.node, th.point)
           d == Drain(th.queue \o items, th.tie, th.emitted)
       IN threads' = [threads EXCEPT ![t].queue = d.queue, ![t].emitted = d.emitted,
                                     ![t].node = d.node,
                                     ![t].pc = IF d.node = 0 THEN "done" ELSE "isLeaf"]
    /\ UNCHANGED <<nodes, lookup, precision, nextKey, removes, last, lookupMutex, pruneMutex, fatal>>

Adder(id, value, loc) ==
    [op |-> "AddValue", id |-> id, value |-> value, loc |-> loc, pc |-> "node",
     stack |-> <<Frame(Root, id, value, LeafCell(loc))>>, ret |-> 0]

Searcher(point, tie) ==
    [op |-> "Search", point |-> point, tie |-> tie, pc |-> "start", queue |-> <<>>,
     node |-> 0, leaf |-> FALSE, emitted |-> <<>>, stored |-> {}]

\* The calls thread t may make: AddValue of a key of its own, or Search.
Calls(t) ==
    {Adder(maxValuesPerCell + t, value, loc) : value \in Payloads, loc \in Locations}
    \cup {Searcher(point, tie) : point \in FocalPoints, tie \in TiePolicies}

\* An index whose root is a full leaf; every thread has entered a call.
InitConc ==
    /\ precision \in Precisions
    /\ \E loc \in Locations :
          /\ nodes = Filled(precision, loc, maxValuesPerCell).nodes
          /\ lookup = Filled(precision, loc, maxValuesPerCell).lookup
    /\ nextKey = maxValuesPerCell + 1
    /\ removes = 0
    /\ last = NoCall
    /\ \E calls \in [ThreadIds -> UNION {Calls(t) : t \in ThreadIds}] :
          /\ \A t \in ThreadIds : calls[t] \in Calls(t)
          /\ threads = calls
    /\ lookupMutex = NewRWMutex
    /\ pruneMutex = NewRWMutex
    /\ fatal = FALSE

NextConc ==
    \E t \in ThreadIds :
        \/ AddHasChildren(t)
        \/ AddDescend(t)
        \/ AddLock(t)
        \/ AddSplitNext(t)
        \/ AddSplitEnd(t)
        \/ AddLookup(t)
        \/ SearchBegin(t)
        \/ SearchIsLeaf(t)
        \/ SearchLoad(t)

SpecConc == InitConc /\ [][NextConc]_vars

\* The steps of a call of AddValue by thread t.
AddStep(t) ==
    \/ AddHasChildren(t)
    \/ AddDescend(t)
    \/ AddLock(t)
    \/ AddSplitNext(t)
    \/ AddSplitEnd(t)
    \/ AddLookup(t)

\* Every thread has entered a call of AddValue on an index whose root is a
\* full leaf.
InitAdders == InitConc /\ \A t \in ThreadIds : threads[t].op = "AddValue"

NextAdders == \E t \in ThreadIds : AddStep(t)

\* The scheduler runs every goroutine that can take a step, and a mutex that
\* stays free is handed to a goroutine waiting for it.
SpecAdders == InitAdders /\ [][NextAdders]_vars /\ \A t \in ThreadIds : WF_vars(AddStep(t))

\* ------------------------------------------------- the v3 index (package v3)
\* The fixed-depth index: a value lies in the leaf at level precision - 1 of
\* its cell; the path to the leaf is made of the cells of levels
\* 0..precision - 1.  Its locations lie in Faces level-0 cells.
V3Locations == {0, LastPos} \cup {f * 2^FinestLevel : f \in 1..(Faces - 1)}

\* The points the searches of the v3 index start from.
V3FocalPoints == {0, LastPos}

V3Keys == 1..MaxAdds

\* &Node[T]{} of NewKNN
V3NewRoot ==
    [cellID |-> RootCell, values |-> <<>>, children |-> <<>>, isLeaveNode |-> FALSE,
     parent |-> 0]

\* Node.GetOrCreateChild(key, isLeaveNode) run without interference.
V3GetOrCreateChild(ns, n, key, isLeaveNode) ==
    LET i == IndexOfChild(ns, n, key)
        id == Len(ns) + 1
        child == [cellID |-> key, values |-> <<>>, children |-> <<>>,
                  isLeaveNode |-> isLeaveNode, parent |-> n]
    IN IF i # 0 THEN [nodes |-> ns, node |-> ns[n].children[i]]
       ELSE [nodes |-> Append([ns EXCEPT ![n].children = Append(@, id)], child),
             node |-> id]

\* The loop of KNN.AddValue that builds the path, from round i on.
RECURSIVE V3Path(_, _, _, _, _)
V3Path(ns, n, cellID, i, p) ==
    IF i >= p THEN [nodes |-> ns, node |-> n]
    ELSE LET g == V3GetOrCreateChild(ns, n, Parent(cellID, i), p - 1 = i)
         IN V3Path(g.nodes, g.node, cellID, i + 1, p)

\* Node.SetValue
V3SetValue(ns, n, key, value, cell) ==
    [ns EXCEPT ![n].values = Append(@, NewValue(key, value, cell))]

\* What KNN.AddValue of v3 makes of the tree and the lookup map.
V3KNNAddValue(ns, lk, p, id, value, loc) ==
    LET path == V3Path(ns, Root, LeafCell(loc), 0, p)
    IN [nodes |-> V3SetValue(path.nodes, path.node, id, value, LeafCell(loc)),
        lookup |-> LookupPut(lk, id, path.node)]

V3IsLeaveNode(ns, n) == ns[n].isLeaveNode

\* Node.FilerValues(callback) from value i on: the values handed to the
\* callback so far and whether the callback returned true.
RECURSIVE V3FilerValues(_, _, _, _)
V3FilerValues(vals, i, emitted, cb) ==
    IF i > Len(vals) THEN [emitted |-> emitted, stopped |-> FALSE]
    ELSE LET handed == Append(emitted, vals[i])
         IN IF CallbackStops(cb, handed) THEN [emitted |-> handed, stopped |-> TRUE]
            ELSE V3FilerValues(vals, i + 1, handed, cb)

\* The loop of KNN.SearchApproximate of v3.
RECURSIVE V3ApproximateLoop(_, _, _, _, _, _, _)
V3ApproximateLoop(ns, queue, point, tie, emitted, cancelled, cb) ==
    IF CtxErr(cancelled, cb, emitted) THEN emitted
    ELSE IF queue = <<>> THEN emitted
    ELSE LET i == PopIndex(queue, tie)
             poppedNode == queue[i].node
             rest == RemoveAt(queue, i)
         IN IF V3IsLeaveNode(ns, poppedNode)
            THEN LET f == V3FilerValues(ns[poppedNode].values, 1, emitted, cb)
                 IN IF f.stopped THEN f.emitted
                    ELSE V3ApproximateLoop(ns, rest, point, tie, f.emitted, cancelled, cb)
            ELSE V3ApproximateLoop(ns, rest \o ChildItems(ns, poppedNode, point),
                                   point, tie, emitted, cancelled, cb)

V3KNNSearchApproximate(ns, point, tie, cancelled, cb) ==
    V3ApproximateLoop(ns, <<NodeItem(Root, 0)>>, point, tie, <<>>, cancelled, cb)

\* The loop of KNN.Search of v3.
RECURSIVE V3SearchLoop(_, _, _, _, _, _, _)
V3SearchLoop(ns, queue, point, tie, emitted, cancelled, cb) ==
    IF CtxErr(cancelled, cb, emitted) THEN emitted
    ELSE IF queue = <<>> THEN emitted
    ELSE LET i == PopIndex(queue, tie)
             popped == queue[i]
             rest == RemoveAt(queue, i)
         IN IF popped.kind = "node"
            THEN IF V3IsLeaveNode(ns, popped.node)
                 THEN V3SearchLoop(ns, rest \o ValueItems(ns, popped.node, point),
                                   point, tie, emitted, cancelled, cb)
                 ELSE V3SearchLoop(ns, rest \o ChildItems(ns, popped.node, point),
                                   point, tie, emitted, cancelled, cb)
            ELSE LET handed == Append(emitted, popped.value)
                 IN IF CallbackStops(cb, handed) THEN handed
                    ELSE V3SearchLoop(ns, rest, point, tie, handed, cancelled, cb)

V3KNNSearch(ns, point, tie, cancelled, cb) ==
    V3SearchLoop(ns, <<NodeItem(Root, 0)>>, point, tie, <<>>, cancelled, cb)

\* Node.RemoveChild(id) while Node.Prune ranges over the children: the
\* children behind the first one with the cellID move one place to the
\* front.  backing is the array the range statement reads, as long as the
\* list was when the loop began; the place of the last child keeps its
\* content.
V3RemoveChild(ns, n, backing, id) ==
    LET j == IndexOfChild(ns, n, id)
        len == Len(ns[n].children)
    IN IF j = 0 THEN [nodes |-> ns, backing |-> backing]
       ELSE [nodes |-> [ns EXCEPT ![n].children =
                           SubSeq(@, 1, j - 1) \o SubSeq(@, j + 1, len)],
             backing |-> [k \in 1..Len(backing) |->
                             IF k >= j /\ k < len THEN backing[k + 1] ELSE backing[k]]]

\* Node.Prune of v3: the tree after it and the value it returns.
RECURSIVE V3NodePrune(_, _)
RECURSIVE V3PruneLoop(_, _, _, _)
V3PruneLoop(ns, n, backing, i) ==
    IF i > Len(backing) THEN [nodes |-> ns, empty |-> Len(ns[n].children) = 0]
    ELSE LET child == backing[i]
         IN IF ns[child].isLeaveNode
            THEN [nodes |-> ns, empty |-> Len(ns[n].values) = 0]
            ELSE LET r == V3NodePrune(ns, child)
                 IN IF r.empty
                    THEN LET c == V3RemoveChild(r.nodes, n, backing, ns[child].cellID)
                         IN V3PruneLoop(c.nodes, n, c.backing, i + 1)
                    ELSE V3PruneLoop(r.nodes, n, backing, i + 1)

V3NodePrune(ns, n) == V3PruneLoop(ns, n, ns[n].children, 1)

\* NewKNN(p) of v3
V3NewKNN == [nodes |-> <<V3NewRoot>>, lookup |-> <<>>]

InitV3 ==
    /\ precision \in Precisions
    /\ nodes = V3NewKNN.nodes
    /\ lookup = V3NewKNN.lookup
    /\ nextKey = 1
    /\ removes = 0
    /\ last = NoCall
    /\ threads = <<>>
    /\ lookupMutex = NewRWMutex
    /\ pruneMutex = NewRWMutex
    /\ fatal = FALSE

\* KNN.AddValue of v3 with valid coordinates and a new key.
V3AddValue(id, value, loc) ==
    /\ id = nextKey
    /\ nextKey <= MaxAdds
    /\ LET r == V3KNNAddValue(nodes, lookup, precision, id, value, loc)
       IN /\ nodes' = r.nodes
          /\ lookup' = r.lookup
    /\ nextKey' = nextKey + 1
    /\ last' = [op |-> "AddValue"]
    /\ UNCHANGED <<precision, removes, threads, lookupMutex, pruneMutex, fatal>>

\* KNN.RemoveValue of v3
V3RemoveValue(id) ==
    /\ IF id \notin DOMAIN lookup
       THEN /\ last' = [op |-> "RemoveValue", ret |-> FALSE]
            /\ UNCHANGED <<nodes, lookup, removes>>
       ELSE /\ nodes' = NodeRemoveValue(nodes, lookup[id], id)
            /\ lookup' = LookupDelete(lookup, id)
            /\ last' = [op |-> "RemoveValue", ret |-> TRUE]
            /\ UNCHANGED removes
    /\ UNCHANGED <<precision, nextKey, threads, lookupMutex, pruneMutex, fatal>>

\* KNN.Prune of v3
V3Prune ==
    /\ nodes' = V3NodePrune(nodes, Root).nodes
    /\ last' = [op |-> "Prune"]
    /\ UNCHANGED <<lookup, precision, nextKey, removes, threads,
                   lookupMutex, pruneMutex, fatal>>

\* KNN.Search of v3
V3Search(point, tie, cancelled, cb) ==
    /\ last' = [op |-> "Search", point |-> point, cancelled |-> cancelled, cb |-> cb,
                emitted |-> V3KNNSearch(nodes, point, tie, cancelled, cb)]
    /\ UNCHANGED <<nodes, lookup, precision, nextKey, removes, threads,
                   lookupMutex, pruneMutex, fatal>>

\* KNN.SearchApproximate of v3
V3SearchApproximate(point, tie, cancelled, cb) ==
    /\ last' = [op |-> "SearchApproximate", point |-> point, cancelled |-> cancelled,
                cb |-> cb,
                emitted |-> V3KNNSearchApproximate(nodes, point, tie, cancelled, cb)]
    /\ UNCHANGED <<nodes, lookup, precision, nextKey, removes, threads,
                   lookupMutex, pruneMutex, fatal>>

NextV3 ==
    \/ \E id \in V3Keys, value \in Payloads, loc \in V3Locations : V3AddValue(id, value, loc)
    \/ \E id \in V3Keys : V3RemoveValue(id)
    \/ V3Prune
    \/ \E point \in V3FocalPoints, tie \in TiePolicies, cb \in Callbacks :
          V3Search(point, tie, FALSE, cb)
    \/ \E point \in V3FocalPoints, tie \in TiePolicies, cb \in Callbacks :
          V3SearchApproximate(point, tie, FALSE, cb)

SpecV3 == InitV3 /\ [][NextV3]_vars

\* --------------------------------------------- the prune lock of the v3 index
\* Threads call the operations of the v3 index.  An operation is three steps:
\* taking pruneMutex, the rest of its body, and the deferred release of
\* pruneMutex on return.  A thread is idle, in the "section" between the
\* lock and the end of the body, or at its "return".
PruneThread(op, pc) == [op |-> op, pc |-> pc]

\* The operations that take pruneMutex with RLock.
SharedOps == {"AddValue", "RemoveValue", "Search", "SearchApproximate"}

\* The locations the threads add values at.
PruneLocations == {0, 2^FinestLevel}

InitPrune ==
    /\ precision \in Precisions
    /\ nodes = V3NewKNN.nodes
    /\ lookup = V3NewKNN.lookup
    /\ nextKey = 1
    /\ removes = 0
    /\ last = NoCall
    /\ threads = [t \in ThreadIds |-> PruneThread("none", "idle")]
    /\ lookupMutex = NewRWMutex
    /\ pruneMutex = NewRWMutex
    /\ fatal = FALSE

\* a.pruneMutex.RLock() of AddValue, RemoveValue, Search, SearchApproximate
V3PruneRLock(t, op) ==
    /\ threads[t].pc = "idle"
    /\ CanRLock(pruneMutex)
    /\ pruneMutex' = RLock(pruneMutex).mutex
    /\ threads' = [threads EXCEPT ![t] = PruneThread(op, "section")]
    /\ UNCHANGED <<nodes, lookup, precision, nextKey, removes, last, lookupMutex, fatal>>

\* defer a.pruneMutex.RUnlock()
V3PruneRUnlock(t) ==
    /\ threads[t].op \in SharedOps /\ threads[t].pc = "return"
    /\ pruneMutex' = RUnlock(pruneMutex).mutex
    /\ fatal' = RUnlock(pruneMutex).fatal
    /\ threads' = [threads EXCEPT ![t] = PruneThread("none", "idle")]
    /\ UNCHANGED <<nodes, lookup, precision, nextKey, removes, last, lookupMutex>>

\* Variant of V3PruneLock: Prune takes pruneMutex as the other operations do.
V3PruneLockShared(t) ==
    /\ threads[t].pc = "idle"
    /\ CanRLock(pruneMutex)
    /\ pruneMutex' = RLock(pruneMutex).mutex
    /\ threads' = [threads EXCEPT ![t] = PruneThread("Prune", "section")]
    /\ UNCHANGED <<nodes, lookup, precision, nextKey, removes, last, lookupMutex, fatal>>

\* a.pruneMutex.Lock() of Prune
V3PruneLock(t) ==
    /\ threads[t].pc = "idle"
    /\ CanLock(pruneMutex)
    /\ pruneMutex' = Lock(pruneMutex).mutex
    /\ threads' = [threads EXCEPT ![t] = PruneThread("Prune", "section")]
    /\ UNCHANGED <<nodes, lookup, precision, nextKey, removes, last, lookupMutex, fatal>>

\* defer a.pruneMutex.Unlock() of Prune
V3PruneUnlock(t) ==
    /\ threads[t].op = "Prune" /\ threads[t].pc = "return"
    /\ pruneMutex' = Unlock(pruneMutex).mutex
    /\ fatal' = Unlock(pruneMutex).fatal
    /\ threads' = [threads EXCEPT ![t] = PruneThread("none", "idle")]
    /\ UNCHANGED <<nodes, lookup, precision, nextKey, removes, last, lookupMutex>>

\* The body of KNN.AddValue behind the lock.
V3AddValueBody(t, id, value, loc) ==
    /\ threads[t] = PruneThread("AddValue", "section")
    /\ id = nextKey
    /\ nextKey <= MaxAdds
    /\ LET r == V3KNNAddValue(nodes, lookup, precision, id, value, loc)
       IN /\ nodes' = r.nodes
          /\ lookup' = r.lookup
    /\ nextKey' = nextKey + 1
    /\ last' = [op |-> "AddValue"]
    /\ threads' = [threads EXCEPT ![t].pc = "return"]
    /\ UNCHANGED <<precision, removes, lookupMutex, pruneMutex, fatal>>

\* The body of KNN.RemoveValue behind the lock.
V3RemoveValueBody(t, id) ==
    /\ threads[t] = PruneThread("RemoveValue", "section")
    /\ IF id \notin DOMAIN lookup
       THEN /\ last' = [op |-> "RemoveValue", ret |-> FALSE]
            /\ UNCHANGED <<nodes, lookup>>
       ELSE /\ nodes' = NodeRemoveValue(nodes, lookup[id], id)
            /\ lookup' = LookupDelete(lookup, id)
            /\ last' = [op |-> "RemoveValue", ret |-> TRUE]
    /\ threads' = [threads EXCEPT ![t].pc = "return"]
    /\ UNCHANGED <<precision, nextKey, removes, lookupMutex, pruneMutex, fatal>>

\* The body of KNN.Search and of KNN.SearchApproximate behind the lock, with
\* a callback that never stops.
V3SearchBody(t, point, tie) ==
    /\ threads[t].op \in {"Search", "SearchApproximate"} /\ threads[t].pc = "section"
    /\ last' = [op |-> threads[t].op, point |-> point, cancelled |-> FALSE,
                cb |-> Callback(0, 0),
                emitted |-> IF threads[t].op = "Search"
                            THEN V3KNNSearch(nodes, point, tie, FALSE, Callback(0, 0))
                            ELSE V3KNNSearchApproximate(nodes, point, tie, FALSE,
                                                        Callback(0, 0))]
    /\ threads' = [threads EXCEPT ![t].pc = "return"]
    /\ UNCHANGED <<nodes, lookup, precision, nextKey, removes, lookupMutex,
                   pruneMutex, fatal>>

\* a.indexRoot.Prune() of KNN.Prune
V3PruneBody(t) ==
    /\ threads[t] = PruneThread("Prune", "section")
    /\ nodes' = V3NodePrune(nodes, Root).nodes
    /\ last' = [op |-> "Prune"]
    /\ threads' = [threads EXCEPT ![t].pc = "return"]
    /\ UNCHANGED <<lookup, precision, nextKey, removes, lookupMutex, pruneMutex, fatal>>

NextPrune ==
    \/ \E t \in ThreadIds, op \in SharedOps : Running /\ V3PruneRLock(t, op)
    \/ \E t \in ThreadIds : Running /\ V3PruneRUnlock(t)
    \/ \E t \in ThreadIds : Running /\ V3PruneLock(t)
    \/ \E t \in ThreadIds : Running /\ V3PruneUnlock(t)
    \/ \E t \in ThreadIds, id \in V3Keys, value \in Payloads, loc \in PruneLocations :
          Running /\ V3AddValueBody(t, id, value, loc)
    \/ \E t \in ThreadIds, id \in V3Keys : Running /\ V3RemoveValueBody(t, id)
    \/ \E t \in ThreadIds, point \in V3FocalPoints, tie \in TiePolicies :
          Running /\ V3SearchBody(t, point, tie)
    \/ \E t \in ThreadIds : Running /\ V3PruneBody(t)

SpecPrune == InitPrune /\ [][NextPrune]_vars

\* ------------------------------------------- concurrent GetOrCreateChild
\* Threads call Node.GetOrCreateChild of the adaptive node step by step.  A
\* call is up to two steps: the scan of the children under childMutex.RLock,
\* and, when the scan found no child, the second scan and the creation under
\* childMutex.Lock.  Either section holds no other lock and is one step.
ChildCall(n, cellID, pc, ret) ==
    [op |-> "GetOrCreateChild", node |-> n, cellID |-> cellID, pc |-> pc, ret |-> ret]

IdleThread == [op |-> "none", pc |-> "idle"]

\* Variant of CreateUnderLock: the child is created without a second scan.
CreateUnchecked(ns, n, childCellID) ==
    LET id == Len(ns) + 1
        child == [cellID |-> childCellID, values |-> <<>>, children |-> <<>>,
                  parent |-> n, valuesMutex |-> 0,
                  maxIndexDepth |-> ns[n].maxIndexDepth]
    IN [nodes |-> Append([ns EXCEPT ![n].children = Append(@, id)], child),
        node |-> id]

\* The section of Node.GetOrCreateChild under childMutex.Lock: the children
\* are scanned again, and the child is created when there is still none.
CreateUnderLock(ns, n, childCellID) == GetOrCreateChild(ns, n, childCellID)

\* The locations whose cells the calls are made with.
ChildLocations == Locations \cup {2^FinestLevel}

\* A thread calls GetOrCreateChild on the root, as Node.AddValue does, with
\* the cell of a location at the level below the root's.
ChildCallBegin(t, loc) ==
    /\ threads[t].pc \in {"idle", "done"}
    /\ threads' = [threads EXCEPT ![t] =
           ChildCall(Root, Parent(LeafCell(loc), Level(nodes[Root].cellID) + 1), "scan", 0)]
    /\ UNCHANGED <<nodes, lookup, precision, nextKey, removes, last, lookupMutex,
                   pruneMutex, fatal>>

\* Node.GetOrCreateChild lines 35-42: the scan under childMutex.RLock.
ChildScan(t) ==
    /\ threads[t].pc = "scan"
    /\ LET th == threads[t]
           i == IndexOfChild(nodes, th.node, th.cellID)
       IN threads' = [threads EXCEPT ![t] =
              IF i # 0 THEN ChildCall(th.node, th.cellID, "done", nodes[th.node].children[i])
              ELSE ChildCall(th.node, th.cellID, "lock", 0)]
    /\ UNCHANGED <<nodes, lookup, precision, nextKey, removes, last, lookupMutex,
                   pruneMutex, fatal>>

\* Node.GetOrCreateChild lines 44-62: the section under childMutex.Lock.
\* The call has raced when the second scan finds a child the first did not.
ChildCreate(t) ==
    /\ threads[t].pc = "lock"
    /\ LET th == threads[t]
           g == CreateUnderLock(nodes, th.node, th.cellID)
       IN /\ nodes' = g.nodes
          /\ threads' = [threads EXCEPT ![t] = ChildCall(th.node, th.cellID, "done", g.node)]
          /\ last' = [op |-> "GetOrCreateChild",
                      raced |-> IndexOfChild(nodes, th.node, th.cellID) # 0]
    /\ UNCHANGED <<lookup, precision, nextKey, removes, lookupMutex, pruneMutex, fatal>>

\* An empty index; no thread has made a call.
InitChild ==
    /\ precision \in Precisions
    /\ nodes = NewKNN(precision).nodes
    /\ lookup = NewKNN(precision).lookup
    /\ nextKey = 1
    /\ removes = 0
    /\ last = NoCall
    /\ threads = [t \in ThreadIds |-> IdleThread]
    /\ lookupMutex = NewRWMutex
    /\ pruneMutex = NewRWMutex
    /\ fatal = FALSE

NextChild ==
    \/ \E t \in ThreadIds, loc \in ChildLocations : ChildCallBegin(t, loc)
    \/ \E t \in ThreadIds : ChildScan(t)
    \/ \E t \in ThreadIds : ChildCreate(t)

SpecChild == InitChild /\ [][NextChild]_vars

\* ------------------------------------- callbacks that call back into the index
\* Threads search the v3 index with a callback that calls KNN.RemoveValue
\* with the key of the value it is handed and returns false.  A step is one
\* critical section; the locks held across steps are the valuesMutex a
\* thread read-holds in Node.FilerValues while the callback runs (the node
\* is the thread's rlocked, 0 for none) and lookupMutex, which
\* KNN.RemoveValue holds from its first line to its return.
CallbackThread(op, point, tie) ==
    [op |-> op, point |-> point, tie |-> tie, pc |-> "loop",
     queue |-> <<NodeItem(Root, 0)>>, rlocked |-> 0, i |-> 0, key |-> 0,
     emitted |-> <<>>]

\* The v3 index of precision p after AddValue of the keys 1..n, key k at
\* location locs[k].
RECURSIVE V3Filled(_, _, _)
V3Filled(p, locs, n) ==
    IF n = 0 THEN V3NewKNN
    ELSE LET before == V3Filled(p, locs, n - 1)
         IN V3KNNAddValue(before.nodes, before.lookup, p, n, "p", locs[n])

\* The threads that read-hold the valuesMutex of node n.
ValuesReaders(n) == {t \in DOMAIN threads : threads[t].rlocked = n}

\* KNN.SearchApproximate, one round of the loop: a node is popped; a leaf
\* is handed to Node.FilerValues, which takes its valuesMutex with RLock.
ApproximatePop(t) ==
    /\ threads[t].op = "SearchApproximate" /\ threads[t].pc = "loop"
    /\ LET th == threads[t]
       IN IF th.queue = <<>> THEN threads' = [threads EXCEPT ![t].pc = "done"]
          ELSE LET i == PopIndex(th.queue, th.tie)
                   poppedNode == th.queue[i].node
                   rest == RemoveAt(th.queue, i)
               IN IF V3IsLeaveNode(nodes, poppedNode)
                  THEN threads' = [threads EXCEPT ![t].queue = rest,
                                                  ![t].rlocked = poppedNode,
                                                  ![t].i = 1, ![t].pc = "filer"]
                  ELSE threads' = [threads EXCEPT ![t].queue =
                                      rest \o ChildItems(nodes, poppedNode, th.point)]
    /\ UNCHANGED <<nodes, lookup, precision, nextKey, removes, last, lookupMutex,
                   pruneMutex, fatal>>

\* Node.FilerValues, one round of its loop: the next value of the leaf goes
\* to the callback; behind the last value valuesMutex is released.
FilerNext(t) ==
    /\ threads[t].op = "SearchApproximate" /\ threads[t].pc = "filer"
    /\ LET th == threads[t]
           vals == nodes[th.rlocked].values
       IN IF th.i > Len(vals)
          THEN threads' = [threads EXCEPT ![t].rlocked = 0, ![t].pc = "loop"]
          ELSE threads' = [threads EXCEPT ![t].key = vals[th.i].key,
                                          ![t].emitted = Append(@, vals[th.i]),
                                          ![t].pc = "callback"]
    /\ UNCHANGED <<nodes, lookup, precision, nextKey, removes, last, lookupMutex,
                   pruneMutex, fatal>>

\* KNN.Search of v3, one round of the loop: a leaf's values are pushed under
\* its valuesMutex.RLock, which is released before the step ends; a popped
\* value goes to the callback.
SearchPop(t) ==
    /\ threads[t].op = "Search" /\ threads[t].pc = "loop"
    /\ LET th == threads[t]
       IN IF th.queue = <<>> THEN threads' = [threads EXCEPT ![t].pc = "done"]
          ELSE LET i == PopIndex(th.queue, th.tie)
                   popped == th.queue[i]
                   rest == RemoveAt(th.queue, i)
               IN IF popped.kind = "value"
                  THEN threads' = [threads EXCEPT ![t].queue = rest,
                                                  ![t].key = popped.value.key,
                                                  ![t].emitted = Append(@, popped.value),
                                                  ![t].pc = "callback"]
                  ELSE IF V3IsLeaveNode(nodes, popped.node)
                  THEN threads' = [threads EXCEPT ![t].queue =
                                      rest \o ValueItems(nodes, popped.node, th.point)]
                  ELSE threads' = [threads EXCEPT ![t].queue =
                                      rest \o ChildItems(nodes, popped.node, th.point)]
    /\ UNCHANGED <<nodes, lookup, precision, nextKey, removes, last, lookupMutex,
                   pruneMutex, fatal>>

\* The callback calls KNN.RemoveValue(key): lookupMutex.Lock().
CallbackLookupLock(t) ==
    /\ threads[t].pc = "callback"
    /\ CanLock(lookupMutex)
    /\ lookupMutex' = Lock(lookupMutex).mutex
    /\ threads' = [threads EXCEPT ![t].pc = "remove"]
    /\ UNCHANGED <<nodes, lookup, precision, nextKey, removes, last, pruneMutex, fatal>>

\* The rest of KNN.RemoveValue(key) and the return of the callback: for a
\* stored key Node.RemoveValue takes the valuesMutex of its node with Lock,
\* which waits while a thread read-holds it.
CallbackRemove(t) ==
    /\ threads[t].pc = "remove"
    /\ LET th == threads[t]
       IN /\ IF th.key \notin DOMAIN lookup
             THEN UNCHANGED <<nodes, lookup>>
             ELSE /\ ValuesReaders(lookup[th.key]) = {}
                  /\ nodes' = NodeRemoveValue(nodes, lookup[th.key], th.key)
                  /\ lookup' = LookupDelete(lookup, th.key)
          /\ last' = [op |-> "RemoveValue", ret |-> th.key \in DOMAIN lookup]
          /\ threads' = [threads EXCEPT ![t].i = @ + 1,
                 ![t].pc = IF th.op = "SearchApproximate" THEN "filer" ELSE "loop"]
    /\ lookupMutex' = Unlock(lookupMutex).mutex
    /\ UNCHANGED <<precision, nextKey, removes, pruneMutex, fatal>>

\* The searches a thread may run.
CallbackThreads ==
    {CallbackThread(op, point, tie) :
        op \in {"Search", "SearchApproximate"}, point \in V3FocalPoints,
        tie \in TiePolicies}

\* A v3 index that holds MaxAdds values; every thread has entered a search.
InitCallback ==
    /\ precision \in Precisions
    /\ \E locs \in [1..MaxAdds -> PruneLocations] :
          /\ nodes = V3Filled(precision, locs, MaxAdds).nodes
          /\ lookup = V3Filled(precision, locs, MaxAdds).lookup
    /\ nextKey = MaxAdds + 1
    /\ removes = 0
    /\ last = NoCall
    /\ threads \in [ThreadIds -> CallbackThreads]
    /\ lookupMutex = NewRWMutex
    /\ pruneMutex = NewRWMutex
    /\ fatal = FALSE

NextCallback ==
    \E t \in ThreadIds :
        \/ ApproximatePop(t)
        \/ FilerNext(t)
        \/ SearchPop(t)
        \/ CallbackLookupLock(t)
        \/ CallbackRemove(t)

SpecCallback == InitCallback /\ [][NextCallback]_vars

\* ------------------------------------------------ accesses to a node's fields
\* Threads call the methods of the adaptive Node that read or write the
\* values or the children of a node.  A call is two steps: it takes the
\* locks the method takes and is "in" its accesses, then it has its effect,
\* releases the locks and returns.
NodeMethods ==
    {"UpdateValue", "RemoveValue", "AddValuesToQueue", "AddChildrenToQueue",
     "GetOrCreateChild"}

\* The mode a method takes n.valuesMutex in: "W" Lock, "R" RLock, "none".
ValuesLockOf(op) ==
    CASE op = "UpdateValue" -> "none"
      [] op = "RemoveValue" -> "W"
      [] op = "AddValuesToQueue" -> "R"
      [] OTHER -> "none"

\* The mode a method takes n.childMutex in.
ChildLockOf(op) ==
    CASE op = "AddChildrenToQueue" -> "R"
      [] op = "GetOrCreateChild" -> "W"
      [] OTHER -> "none"

\* The fields of the node a method reads, and those it writes.
ReadsOf(op) ==
    CASE op \in {"UpdateValue", "RemoveValue", "AddValuesToQueue"} -> {"values"}
      [] OTHER -> {"children"}

WritesOf(op) ==
    CASE op \in {"UpdateValue", "RemoveValue"} -> {"values"}
      [] op = "GetOrCreateChild" -> {"children"}
      [] OTHER -> {}

NodeCall(op, n, key, value, loc) ==
    [op |-> op, node |-> n, key |-> key, value |-> value, loc |-> loc, pc |-> "in"]

\* The threads other than t that are in a call on node n.
OthersIn(t, n) ==
    {u \in ThreadIds \ {t} : threads[u].pc = "in" /\ threads[u].node = n}

\* A sync.RWMutex can be taken in the mode, given the modes others hold it in.
CanTake(mode, held) ==
    CASE mode = "W" -> held \subseteq {"none"}
      [] mode = "R" -> "W" \notin held
      [] OTHER -> TRUE

\* A thread enters a method of a node: the locks of the method are taken.
NodeCallBegin(t, op, n, key, value, loc) ==
    /\ threads[t].pc = "idle"
    /\ n \in 1..Len(nodes)
    /\ CanTake(ValuesLockOf(op), {ValuesLockOf(threads[u].op) : u \in OthersIn(t, n)})
    /\ CanTake(ChildLockOf(op), {ChildLockOf(threads[u].op) : u \in OthersIn(t, n)})
    /\ threads' = [threads EXCEPT ![t] = NodeCall(op, n, key, value, loc)]
    /\ UNCHANGED <<nodes, lookup, precision, nextKey, removes, last, lookupMutex,
                   pruneMutex, fatal>>

\* The method has its effect and returns; its locks are released.
NodeCallEnd(t) ==
    /\ threads[t].pc = "in"
    /\ LET th == threads[t]
       IN nodes' =
              CASE th.op = "UpdateValue" -> NodeUpdateValue(nodes, th.node, th.key, th.value)
                [] th.op = "RemoveValue" -> NodeRemoveValue(nodes, th.node, th.key)
                [] th.op = "GetOrCreateChild" ->
                       GetOrCreateChild(nodes, th.node,
                           Parent(LeafCell(th.loc), Level(nodes[th.node].cellID) + 1)).nodes
                [] OTHER -> nodes
    /\ last' = [op |-> threads[t].op]
    /\ threads' = [threads EXCEPT ![t] = IdleThread]
    /\ UNCHANGED <<lookup, precision, nextKey, removes, lookupMutex, pruneMutex, fatal>>

\* An index whose root holds Prefill values; no thread is in a call.
InitRace ==
    /\ precision \in Precisions
    /\ \E loc \in Locations :
          /\ nodes = Filled(precision, loc, Prefill).nodes
          /\ lookup = Filled(precision, loc, Prefill).lookup
    /\ nextKey = Prefill + 1
    /\ removes = 0
    /\ last = NoCall
    /\ threads = [t \in ThreadIds |-> IdleThread]
    /\ lookupMutex = NewRWMutex
    /\ pruneMutex = NewRWMutex
    /\ fatal = FALSE

NextRace ==
    \/ \E t \in ThreadIds, op \in NodeMethods, key \in {1, 2}, loc \in {0, LastPos} :
          NodeCallBegin(t, op, Root, key, "q", loc)
    \/ \E t \in ThreadIds : NodeCallEnd(t)

SpecRace == InitRace /\ [][NextRace]_vars

\* ----------------------------------------------------------- the constructor
\* fmt's %d of an integer: a minus sign for a negative number, then the
\* decimal digits, most significant first.
RECURSIVE FormatD(_)
FormatD(n) ==
    IF n < 0 THEN "-" \o FormatD(0 - n)
    ELSE LET digit == <<"0", "1", "2", "3", "4", "5", "6", "7", "8", "9">>[(n % 10) + 1]
         IN IF n < 10 THEN digit ELSE FormatD(n \div 10) \o digit

\* Variant of InvalidPrecision: MaxPrecision itself is refused.
InvalidPrecisionStrict(p) == p < MinPrecision \/ p >= MaxPrecision

\* The test of NewKNN.
InvalidPrecision(p) == p < MinPrecision \/ p > MaxPrecision

\* NewKNN(precision): the index (none: nil) and the error (<<>>: nil, else
\* the message of the error).
NewKNNChecked(p) ==
    IF InvalidPrecision(p)
    THEN [index |-> <<>>,
          err |-> <<"invalid precision " \o FormatD(p) \o ": precision must be between "
                    \o FormatD(MinPrecision) \o " and " \o FormatD(MaxPrecision)>>]
    ELSE [index |-> <<NewKNN(p)>>, err |-> <<>>]

\* No index has been constructed.
InitNew ==
    /\ nodes = <<>>
    /\ lookup = <<>>
    /\ precision = 0
    /\ nextKey = 1
    /\ removes = 0
    /\ last = NoCall
    /\ threads = <<>>
    /\ lookupMutex = NewRWMutex
    /\ pruneMutex = NewRWMutex
    /\ fatal = FALSE

\* A call of NewKNN(p); the index it returns, if any, is the state.
NewKNNCall(p) ==
    /\ LET r == NewKNNChecked(p)
       IN /\ last' = [op |-> "NewKNN", p |-> p, index |-> r.index, err |-> r.err]
          /\ nodes' = IF r.index = <<>> THEN <<>> ELSE r.index[1].nodes
          /\ precision' = IF r.index = <<>> THEN 0 ELSE p
    /\ lookup' = <<>>
    /\ UNCHANGED <<nextKey, removes, threads, lookupMutex, pruneMutex, fatal>>

NextNew == \E p \in (0 - MaxPrecisionInput)..MaxPrecisionInput : NewKNNCall(p)

SpecNew == InitNew /\ [][NextNew]_vars

\* ---------------------------------------------- coordinates of AddValue
\* Threads call KNN.AddValue(id, value, lat, long) of the top-level index or
\* of the v3 index with whole degrees.  A call is the entry with its
\* arguments (in v3: a.pruneMutex.RLock()), the rest of the body, and in v3
\* the deferred a.pruneMutex.RUnlock() of a call that returns.  A panic
\* unwinds the call: deferred functions run and the thread is out of the call.
Lats == {-91, -90, 0, 90, 91}

Lngs == {-181, -180, 0, 180, 181}

\* fmt's %f of a whole number: six decimals.
FormatF(x) == FormatD(x) \o ".000000"

\* Variant of InvalidCoordinate: the boundary values are refused.
InvalidCoordinateStrict(lat, long) == long <= -180 \/ long >= 180 \/ lat <= -90 \/ lat >= 90

\* The test of AddValue.
InvalidCoordinate(lat, long) == long < -180 \/ long > 180 \/ lat < -90 \/ lat > 90

\* The value AddValue panics with.
CoordinatePanic(lat, long) ==
    "invalid latitude " \o FormatF(lat) \o " (Min:-90, Max 90) or longitude "
        \o FormatF(long) \o " (Min: -180, Max 180)"

\* s2.CellIDFromLatLng(s2.LatLngFromDegrees(lat, long)) on the line of leaf
\* cells: the longitudes -180..180 spread over the positions 0..LastPos.
CellIDFromLatLng(lat, long) == ((long + 180) * LastPos) \div 360

\* The index is the v3 index.
IsV3 == "isLeaveNode" \in DOMAIN nodes[Root]

CoordThread(id, value, lat, long) ==
    [op |-> "AddValue", pc |-> "section", id |-> id, value |-> value,
     lat |-> lat, long |-> long]

\* A fresh index of either kind.
InitCoord ==
    /\ precision \in Precisions
    /\ \E index \in {NewKNN(precision), V3NewKNN} :
          /\ nodes = index.nodes
          /\ lookup = index.lookup
    /\ nextKey = 1
    /\ removes = 0
    /\ last = NoCall
    /\ threads = [t \in ThreadIds |-> IdleThread]
    /\ lookupMutex = NewRWMutex
    /\ pruneMutex = NewRWMutex
    /\ fatal = FALSE

\* The entry of AddValue with a new key; v3 takes pruneMutex with RLock.
AddValueEnter(t, value, lat, long) ==
    /\ threads[t].pc = "idle"
    /\ nextKey <= MaxAdds
    /\ IF IsV3
       THEN /\ CanRLock(pruneMutex)
            /\ pruneMutex' = RLock(pruneMutex).mutex
       ELSE UNCHANGED pruneMutex
    /\ threads' = [threads EXCEPT ![t] = CoordThread(nextKey, value, lat, long)]
    /\ nextKey' = nextKey + 1
    /\ UNCHANGED <<nodes, lookup, precision, removes, last, lookupMutex, fatal>>

\* The body of AddValue: the test of the coordinates and the panic (in v3
\* with the deferred RUnlock), or the insertion.
AddValueChecked(t) ==
    /\ threads[t].op = "AddValue" /\ threads[t].pc = "section"
    /\ LET th == threads[t]
       IN IF InvalidCoordinate(th.lat, th.long)
          THEN /\ last' = [op |-> "AddValue", id |-> th.id,
                           panic |-> <<CoordinatePanic(th.lat, th.long)>>]
               /\ threads' = [threads EXCEPT ![t] = IdleThread]
               /\ IF IsV3
                  THEN /\ pruneMutex' = RUnlock(pruneMutex).mutex
                       /\ fatal' = RUnlock(pruneMutex).fatal
                  ELSE UNCHANGED <<pruneMutex, fatal>>
               /\ UNCHANGED <<nodes, lookup>>
          ELSE /\ LET loc == CellIDFromLatLng(th.lat, th.long)
                      r == IF IsV3
                           THEN V3KNNAddValue(nodes, lookup, precision, th.id, th.value, loc)
                           ELSE KNNAddValue(nodes, lookup, th.id, th.value, loc)
                  IN /\ nodes' = r.nodes
                     /\ lookup' = r.lookup
               /\ last' = [op |-> "AddValue", id |-> th.id, panic |-> <<>>]
               /\ threads' = [threads EXCEPT ![t] = IF IsV3 THEN [th EXCEPT !.pc = "return"]
                                                     ELSE IdleThread]
               /\ UNCHANGED <<pruneMutex, fatal>>
    /\ UNCHANGED <<precision, nextKey, removes, lookupMutex>>

\* defer a.pruneMutex.RUnlock() of a call of v3 that returns
AddValueReturn(t) ==
    /\ threads[t].op = "AddValue" /\ threads[t].pc = "return"
    /\ pruneMutex' = RUnlock(pruneMutex).mutex
    /\ fatal' = RUnlock(pruneMutex).fatal
    /\ threads' = [threads EXCEPT ![t] = IdleThread]
    /\ UNCHANGED <<nodes, lookup, precision, nextKey, removes, last, lookupMutex>>

NextCoord ==
    \/ \E t \in ThreadIds, value \in Payloads, lat \in Lats, long \in Lngs :
          AddValueEnter(t, value, lat, long)
    \/ \E t \in ThreadIds : AddValueChecked(t)
    \/ \E t \in ThreadIds : AddValueReturn(t)

SpecCoord == InitCoord /\ [][NextCoord]_vars

\* ------------------------------------------------- a fresh top-level index
\* AddValue of new keys at any locations, from the index NewKNN returns.
InitFresh ==
    /\ precision \in Precisions
    /\ nodes = NewKNN(precision).nodes
    /\ lookup = NewKNN(precision).lookup
    /\ nextKey = 1
    /\ removes = 0
    /\ last = NoCall
    /\ threads = <<>>
    /\ lookupMutex = NewRWMutex
    /\ pruneMutex = NewRWMutex
    /\ fatal = FALSE

NextFresh == \E value \in Payloads, loc \in Locations : AddValue(nextKey, value, loc)

SpecFresh == InitFresh /\ [][NextFresh]_vars

\* ---------------------------------------------- a search, pop by pop
\* One thread runs KNN.Search and KNN.SearchApproximate of the top-level
\* index one iteration of the loop at a time, with a context that is never
\* cancelled and a callback that returns false; no AddValue runs while a
\* search is in progress.  `pushed` is the history of the pushes; a search
\* that has returned is "done" and keeps what it pushed and emitted.
SearchThread(op, point, tie) ==
    [op |-> op, pc |-> "loop", point |-> point, tie |-> tie,
     queue |-> <<NodeItem(Root, 0)>>, pushed |-> <<NodeItem(Root, 0)>>,
     emitted |-> <<>>]

InitIterate ==
    /\ precision \in Precisions
    /\ \E loc \in Locations :
          /\ nodes = Filled(precision, loc, Prefill).nodes
          /\ lookup = Filled(precision, loc, Prefill).lookup
    /\ nextKey = Prefill + 1
    /\ removes = 0
    /\ last = NoCall
    /\ threads = <<IdleThread>>
    /\ lookupMutex = NewRWMutex
    /\ pruneMutex = NewRWMutex
    /\ fatal = FALSE

\* KNN.AddValue while no search is in progress.
AddValueAlone(id, value, loc) ==
    /\ \A t \in DOMAIN threads : threads[t].pc # "loop"
    /\ AddValue(id, value, loc)

\* The entry of a search: the root is pushed.
SearchEnter(t, op, point, tie) ==
    /\ threads[t].pc # "loop"
    /\ threads' = [threads EXCEPT ![t] = SearchThread(op, point, tie)]
    /\ UNCHANGED <<nodes, lookup, precision, nextKey, removes, last, lookupMutex,
                   pruneMutex, fatal>>

\* One iteration of the loop: the search returns when the queue is empty;
\* a popped node pushes its values or its children, a popped value goes to
\* the callback.
SearchIterate(t) ==
    /\ threads[t].pc = "loop"
    /\ LET th == threads[t]
       IN IF th.queue = <<>>
          THEN threads' = [threads EXCEPT ![t].pc = "done"]
          ELSE LET i == PopIndex(th.queue, th.tie)
                   popped == th.queue[i]
                   rest == RemoveAt(th.queue, i)
                   items == IF popped.kind = "value" THEN <<>>
                            ELSE IF IsLeaveNode(nodes, popped.node)
                            THEN ValueItems(nodes, popped.node, th.point)
                            ELSE ChildItems(nodes, popped.node, th.point)
               IN threads' = [threads EXCEPT
                      ![t].queue = rest \o items,
                      ![t].pushed = @ \o items,
                      ![t].emitted = IF popped.kind = "value"
                                     THEN Append(@, popped.value) ELSE @]
    /\ UNCHANGED <<nodes, lookup, precision, nextKey, removes, last, lookupMutex,
                   pruneMutex, fatal>>

NextIterate ==
    \/ \E id \in Keys, value \in Payloads, loc \in Locations : AddValueAlone(id, value, loc)
    \/ \E op \in {"Search", "SearchApproximate"}, point \in FocalPoints,
          tie \in TiePolicies : SearchEnter(1, op, point, tie)
    \/ SearchIterate(1)

\* A goroutine in the loop of a search goes on running.
SpecIterate == InitIterate /\ [][NextIterate]_vars /\ WF_vars(SearchIterate(1))

\* ------------------------------------------------- the v1 index (package v1)
\* A node of v1 keeps its values in a map from key to payload (here a
\* function; the empty map is <<>>) and has no mutex; KNN embeds one
\* sync.RWMutex, the variable lookupMutex in the specifications of v1.  The
\* payload of a value is the number of its key, as in the tests.
V1Locations == {0, LastPos, 2^FinestLevel}

\* The answers of a filter.
FilterTypes == {"Continue", "Stop", "Skip"}

\* The filters: what a filter answers for each payload.
Filters == [V3Keys -> FilterTypes]

\* The orders in which a range statement goes over the keys of a map.
MapOrders == {"up", "down"}

\* The keys of a map in one of these orders.
RECURSIVE KeysInOrder(_, _)
KeysInOrder(keys, order) ==
    IF keys = {} THEN <<>>
    ELSE LET next == CHOOSE k \in keys :
                         \A other \in keys : IF order = "up" THEN k <= other ELSE k >= other
         IN <<next>> \o KeysInOrder(keys \ {next}, order)

\* NewApproximateKNNConcurrent(p) for a valid precision.
V1NewKNN ==
    [nodes |-> <<[cellID |-> RootCell, values |-> <<>>, children |-> <<>>,
                  isLeaveNode |-> FALSE, parent |-> 0]>>,
     lookup |-> <<>>]

\* KNN.AddValue of v1 behind the lock; Node.GetOrCreateChild of v1 creates
\* the child the way V3GetOrCreateChild does.
V1KNNAddValue(ns, lk, p, id, value, loc) ==
    LET path == V3Path(ns, Root, LeafCell(loc), 0, p)
    IN [nodes |-> [path.nodes EXCEPT ![path.node].values = LookupPut(@, id, value)],
        lookup |-> LookupPut(lk, id, path.node)]

\* Node.RemoveChild(id) of v1
V1RemoveChild(ns, n, id) ==
    LET j == IndexOfChild(ns, n, id)
    IN IF j = 0 THEN ns
       ELSE [ns EXCEPT ![n].children =
                SubSeq(@, 1, j - 1) \o SubSeq(@, j + 1, Len(@))]

\* Variant of V1Collapse: only the emptied node is detached.
V1CollapseOnce(ns, node) ==
    IF ns[node].parent = 0 THEN ns
    ELSE V1RemoveChild(ns, ns[node].parent, ns[node].cellID)

\* The loop of KNN.RemoveValue that detaches the empty nodes.
RECURSIVE V1Collapse(_, _)
V1Collapse(ns, node) ==
    LET parentNode == ns[node].parent
    IN IF parentNode = 0 THEN ns
       ELSE LET removed == V1RemoveChild(ns, parentNode, ns[node].cellID)
            IN IF Len(removed[parentNode].children) > 0 THEN removed
               ELSE V1Collapse(removed, parentNode)

\* KNN.RemoveValue of v1 behind the lock.
V1KNNRemoveValue(ns, lk, id) ==
    IF id \notin DOMAIN lk THEN [nodes |-> ns, lookup |-> lk, ret |-> FALSE]
    ELSE LET node == lk[id]
             removed == [ns EXCEPT ![node].values = LookupDelete(@, id)]
             isEmptyNode == DOMAIN removed[node].values = {}
         IN [nodes |-> IF isEmptyNode THEN V1Collapse(removed, node) ELSE removed,
             lookup |-> LookupDelete(lk, id),
             ret |-> TRUE]

\* Variant of V1FilterValues: a skipped value ends the loop over the node.
RECURSIVE V1FilterValuesSkipBreaks(_, _, _, _, _, _)
V1FilterValuesSkipBreaks(keys, vals, i, filter, results, asked) ==
    IF i > Len(keys) THEN [results |-> results, asked |-> asked, stopped |-> FALSE]
    ELSE LET value == vals[keys[i]]
             seen == Append(asked, value)
         IN CASE filter[value] = "Continue" ->
                    V1FilterValuesSkipBreaks(keys, vals, i + 1, filter,
                                             Append(results, value), seen)
              [] filter[value] = "Stop" ->
                    [results |-> results, asked |-> seen, stopped |-> TRUE]
              [] filter[value] = "Skip" ->
                    [results |-> results, asked |-> seen, stopped |-> FALSE]

\* The loop of KNN.Search over the values of a leave node, from the i-th key
\* on: the results, the payloads the filter was asked about so far, and
\* whether the filter answered Stop.
RECURSIVE V1FilterValues(_, _, _, _, _, _)
V1FilterValues(keys, vals, i, filter, results, asked) ==
    IF i > Len(keys) THEN [results |-> results, asked |-> asked, stopped |-> FALSE]
    ELSE LET value == vals[keys[i]]
             seen == Append(asked, value)
         IN CASE filter[value] = "Continue" ->
                    V1FilterValues(keys, vals, i + 1, filter, Append(results, value), seen)
              [] filter[value] = "Stop" ->
                    [results |-> results, asked |-> seen, stopped |-> TRUE]
              [] filter[value] = "Skip" ->
                    V1FilterValues(keys, vals, i + 1, filter, results, seen)

\* The loop of KNN.Search of v1 with a context that is not cancelled.
RECURSIVE V1SearchLoop(_, _, _, _, _, _, _, _)
V1SearchLoop(ns, queue, point, tie, order, filter, results, asked) ==
    IF queue = <<>> THEN [results |-> results, asked |-> asked, stopped |-> FALSE]
    ELSE LET i == PopIndex(queue, tie)
             poppedNode == queue[i].node
             rest == RemoveAt(queue, i)
         IN IF ns[poppedNode].isLeaveNode
            THEN LET f == V1FilterValues(KeysInOrder(DOMAIN ns[poppedNode].values, order),
                                         ns[poppedNode].values, 1, filter, results, asked)
                 IN IF f.stopped THEN f
                    ELSE V1SearchLoop(ns, rest, point, tie, order, filter,
                                      f.results, f.asked)
            ELSE V1SearchLoop(ns, rest \o ChildItems(ns, poppedNode, point),
                              point, tie, order, filter, results, asked)

V1KNNSearch(ns, point, tie, order, filter) ==
    V1SearchLoop(ns, <<NodeItem(Root, 0)>>, point, tie, order, filter, <<>>, <<>>)

InitV1 ==
    /\ precision \in Precisions
    /\ nodes = V1NewKNN.nodes
    /\ lookup = V1NewKNN.lookup
    /\ nextKey = 1
    /\ removes = 0
    /\ last = NoCall
    /\ threads = <<>>
    /\ lookupMutex = NewRWMutex
    /\ pruneMutex = NewRWMutex
    /\ fatal = FALSE

\* KNN.AddValue of v1 with valid coordinates and a new key.
V1AddValue(id, value, loc) ==
    /\ id = nextKey
    /\ nextKey <= MaxAdds
    /\ LET r == V1KNNAddValue(nodes, lookup, precision, id, value, loc)
       IN /\ nodes' = r.nodes
          /\ lookup' = r.lookup
    /\ nextKey' = nextKey + 1
    /\ last' = [op |-> "AddValue"]
    /\ UNCHANGED <<precision, removes, threads, lookupMutex, pruneMutex, fatal>>

\* KNN.RemoveValue of v1
V1RemoveValue(id) ==
    /\ LET r == V1KNNRemoveValue(nodes, lookup, id)
       IN /\ nodes' = r.nodes
          /\ lookup' = r.lookup
          /\ last' = [op |-> "RemoveValue", ret |-> r.ret]
    /\ UNCHANGED <<precision, nextKey, removes, threads, lookupMutex, pruneMutex, fatal>>

\* KNN.Search of v1
V1Search(point, tie, order, filter) ==
    /\ LET r == V1KNNSearch(nodes, point, tie, order, filter)
       IN last' = [op |-> "Search", filter |-> filter, results |-> r.results,
                   asked |-> r.asked]
    /\ UNCHANGED <<nodes, lookup, precision, nextKey, removes, threads,
                   lookupMutex, pruneMutex, fatal>>

NextV1 ==
    \/ \E loc \in V1Locations : V1AddValue(nextKey, nextKey, loc)
    \/ \E id \in V3Keys : V1RemoveValue(id)
    \/ \E point \in V3FocalPoints, order \in MapOrders, filter \in Filters :
          V1Search(point, IF order = "up" THEN "oldest" ELSE "newest", order, filter)

SpecV1 == InitV1 /\ [][NextV1]_vars

\* ------------------------------------------------- the lock of the v1 index
\* Threads call AddValue, RemoveValue and Search of v1.  AddValue and
\* RemoveValue are two steps: a.Lock(), and the body with the deferred
\* a.Unlock().  Search is a.RLock() on entry, one step for each iteration of
\* its loop, and the deferred a.RUnlock() when it returns.  The filter of
\* these searches answers Continue.
V1SearchThread(point, tie, order) ==
    [op |-> "Search", pc |-> "loop", point |-> point, tie |-> tie, order |-> order,
     filter |-> [v \in V3Keys |-> "Continue"],
     queue |-> <<NodeItem(Root, 0)>>, results |-> <<>>, asked |-> <<>>]

InitV1Lock ==
    /\ precision \in Precisions
    /\ nodes = V1NewKNN.nodes
    /\ lookup = V1NewKNN.lookup
    /\ nextKey = 1
    /\ removes = 0
    /\ last = NoCall
    /\ threads = [t \in ThreadIds |-> IdleThread]
    /\ lookupMutex = NewRWMutex
    /\ pruneMutex = NewRWMutex
    /\ fatal = FALSE

\* a.Lock() of AddValue and RemoveValue
V1Lock(t, op) ==
    /\ threads[t].pc = "idle"
    /\ CanLock(lookupMutex)
    /\ lookupMutex' = Lock(lookupMutex).mutex
    /\ threads' = [threads EXCEPT ![t] = PruneThread(op, "section")]
    /\ UNCHANGED <<nodes, lookup, precision, nextKey, removes, last, pruneMutex, fatal>>

\* The body of AddValue behind the lock, and the deferred a.Unlock().
V1AddValueBody(t, id, value, loc) ==
    /\ threads[t] = PruneThread("AddValue", "section")
    /\ id = nextKey
    /\ nextKey <= MaxAdds
    /\ LET r == V1KNNAddValue(nodes, lookup, precision, id, value, loc)
       IN /\ nodes' = r.nodes
          /\ lookup' = r.lookup
    /\ nextKey' = nextKey + 1
    /\ last' = [op |-> "AddValue"]
    /\ lookupMutex' = Unlock(lookupMutex).mutex
    /\ fatal' = Unlock(lookupMutex).fatal
    /\ threads' = [threads EXCEPT ![t] = IdleThread]
    /\ UNCHANGED <<precision, removes, pruneMutex>>

\* The body of RemoveValue behind the lock, and the deferred a.Unlock().
V1RemoveValueBody(t, id) ==
    /\ threads[t] = PruneThread("RemoveValue", "section")
    /\ LET r == V1KNNRemoveValue(nodes, lookup, id)
       IN /\ nodes' = r.nodes
          /\ lookup' = r.lookup
          /\ last' = [op |-> "RemoveValue", ret |-> r.ret]
    /\ lookupMutex' = Unlock(lookupMutex).mutex
    /\ fatal' = Unlock(lookupMutex).fatal
    /\ threads' = [threads EXCEPT ![t] = IdleThread]
    /\ UNCHANGED <<precision, nextKey, removes, pruneMutex>>

\* Variant of V1SearchRLock: the search takes no lock.
V1SearchUnlocked(t, point, tie, order) ==
    /\ threads[t].pc = "idle"
    /\ threads' = [threads EXCEPT ![t] = V1SearchThread(point, tie, order)]
    /\ UNCHANGED <<nodes, lookup, precision, nextKey, removes, last, lookupMutex,
                   pruneMutex, fatal>>

\* The entry of Search: the root is pushed and a.RLock() is taken.
V1SearchRLock(t, point, tie, order) ==
    /\ threads[t].pc = "idle"
    /\ CanRLock(lookupMutex)
    /\ lookupMutex' = RLock(lookupMutex).mutex
    /\ threads' = [threads EXCEPT ![t] = V1SearchThread(point, tie, order)]
    /\ UNCHANGED <<nodes, lookup, precision, nextKey, removes, last, pruneMutex, fatal>>

\* One iteration of the loop of Search, up to its return statement.
V1SearchIterate(t) ==
    /\ threads[t].op = "Search" /\ threads[t].pc = "loop"
    /\ LET th == threads[t]
       IN IF th.queue = <<>>
          THEN threads' = [threads EXCEPT ![t].pc = "return"]
          ELSE LET i == PopIndex(th.queue, th.tie)
                   poppedNode == th.queue[i].node
                   rest == RemoveAt(th.queue, i)
                   f == V1FilterValues(KeysInOrder(DOMAIN nodes[poppedNode].values, th.order),
                                       nodes[poppedNode].values, 1, th.filter,
                                       th.results, th.asked)
               IN IF nodes[poppedNode].isLeaveNode
                  THEN threads' = [threads EXCEPT
                           ![t].queue = rest, ![t].results = f.results,
                           ![t].asked = f.asked,
                           ![t].pc = IF f.stopped THEN "return" ELSE "loop"]
                  ELSE threads' = [threads EXCEPT
                           ![t].queue = rest \o ChildItems(nodes, poppedNode, th.point)]
    /\ UNCHANGED <<nodes, lookup, precision, nextKey, removes, last, lookupMutex,
                   pruneMutex, fatal>>

\* The return of Search: the deferred a.RUnlock().
V1SearchReturn(t) ==
    /\ threads[t].op = "Search" /\ threads[t].pc = "return"
    /\ lookupMutex' = RUnlock(lookupMutex).mutex
    /\ fatal' = RUnlock(lookupMutex).fatal
    /\ threads' = [threads EXCEPT ![t] = IdleThread]
    /\ last' = [op |-> "Search"]
    /\ UNCHANGED <<nodes, lookup, precision, nextKey, removes, pruneMutex>>

NextV1Lock ==
    \/ \E t \in ThreadIds, op \in {"AddValue", "RemoveValue"} : Running /\ V1Lock(t, op)
    \/ \E t \in ThreadIds, loc \in V1Locations :
          Running /\ V1AddValueBody(t, nextKey, nextKey, loc)
    \/ \E t \in ThreadIds, id \in V3Keys : Running /\ V1RemoveValueBody(t, id)
    \/ \E t \in ThreadIds, point \in V3FocalPoints, order \in MapOrders :
          Running /\ V1SearchRLock(t, point, IF order = "up" THEN "oldest" ELSE "newest",
                                   order)
    \/ \E t \in ThreadIds : Running /\ V1SearchIterate(t)
    \/ \E t \in ThreadIds : Running /\ V1SearchReturn(t)

SpecV1Lock == InitV1Lock /\ [][NextV1Lock]_vars

\* ------------------------------------------------- the locks of the index
\* Threads make MaxCalls calls each, one after the other, of the operations
\* of the top-level index (AddValue, RemoveValue, HasValue, Search,
\* SearchApproximate) or of the v3 index (AddValue, RemoveValue, Search,
\* SearchApproximate, Prune), with callbacks that return false and make no
\* call.  A step is one critical section; a lock held across steps is a
\* valuesMutex held by a split (top level) or read-held by Node.FilerValues
\* (v3), lookupMutex held by RemoveValue, and pruneMutex.  A thread has
\* left further calls to make.
WithLeft(call, n) ==
    [f \in DOMAIN call \cup {"left"} |-> IF f = "left" THEN n ELSE call[f]]

Waiting(n) == [op |-> "none", pc |-> "idle", rlocked |-> 0, left |-> n]

\* The locations of the values the top-level index holds at the start; the
\* threads add their values at LastPos.
LockLocations == {0, LastPos}

\* KNN.RemoveValue(id) and KNN.HasValue(id) of the top level, at their
\* first line.
Remover(id) == [op |-> "RemoveValue", id |-> id, pc |-> "lookupLock"]

HasValueCall(id) == [op |-> "HasValue", id |-> id, pc |-> "has"]

\* The calls of the top-level index a thread may make.
TopCalls ==
    {Adder(nextKey, "p", LastPos)}
    \cup {Remover(id) : id \in {1, maxValuesPerCell + 1}}
    \cup {HasValueCall(1)}
    \cup {SearchThread(op, LastPos, "oldest") : op \in {"Search", "SearchApproximate"}}

\* A call of the v3 index, at its first line.
V3Call(op, id, loc) ==
    [op |-> op, pc |-> "enter", id |-> id, loc |-> loc, node |-> 0,
     point |-> LastPos, tie |-> "oldest", queue |-> <<NodeItem(Root, 0)>>,
     rlocked |-> 0, i |-> 0, key |-> 0, emitted |-> <<>>]

\* The calls of the v3 index a thread may make.
V3Calls ==
    {V3Call("AddValue", nextKey, LastPos)}
    \cup {V3Call("RemoveValue", id, 0) : id \in {1, MaxAdds + 1}}
    \cup {V3Call(op, 0, 0) : op \in {"Search", "SearchApproximate", "Prune"}}

\* A top-level index whose root is a full leaf, or a v3 index that holds
\* MaxAdds values; no thread has made a call.
InitLocks ==
    /\ precision \in Precisions
    /\ \/ \E loc \in LockLocations :
             /\ nodes = Filled(precision, loc, maxValuesPerCell).nodes
             /\ lookup = Filled(precision, loc, maxValuesPerCell).lookup
             /\ nextKey = maxValuesPerCell + 1
       \/ \E locs \in [1..MaxAdds -> PruneLocations] :
             /\ nodes = V3Filled(precision, locs, MaxAdds).nodes
             /\ lookup = V3Filled(precision, locs, MaxAdds).lookup
             /\ nextKey = MaxAdds + 1
    /\ removes = 0
    /\ last = NoCall
    /\ threads = [t \in ThreadIds |-> Waiting(MaxCalls)]
    /\ lookupMutex = NewRWMutex
    /\ pruneMutex = NewRWMutex
    /\ fatal = FALSE

\* Thread t makes its next call.
StartCall(t, call) ==
    /\ threads[t].pc = "idle" /\ threads[t].left > 0
    /\ call \in (IF IsV3 THEN V3Calls ELSE TopCalls)
    /\ threads' = [threads EXCEPT ![t] = WithLeft(call, threads[t].left - 1)]
    /\ nextKey' = IF call.op = "AddValue" THEN nextKey + 1 ELSE nextKey
    /\ UNCHANGED <<nodes, lookup, precision, removes, last, lookupMutex, pruneMutex, fatal>>

\* KNN.RemoveValue of the top level: a.lookupMutex.Lock().
RemoveLookupLock(t) ==
    /\ threads[t].op = "RemoveValue" /\ threads[t].pc = "lookupLock"
    /\ CanLock(lookupMutex)
    /\ lookupMutex' = Lock(lookupMutex).mutex
    /\ threads' = [threads EXCEPT ![t].pc = "remove"]
    /\ UNCHANGED <<nodes, lookup, precision, nextKey, removes, last, pruneMutex, fatal>>

\* Variant of RemoveNode: lookupMutex is not released.
RemoveNodeKeepsLock(t) ==
    /\ threads[t].op = "RemoveValue" /\ threads[t].pc = "remove"
    /\ LET id == threads[t].id
       IN /\ IF id \notin DOMAIN lookup
             THEN UNCHANGED <<nodes, lookup>>
             ELSE /\ nodes[lookup[id]].valuesMutex = 0
                  /\ nodes' = NodeRemoveValue(nodes, lookup[id], id)
                  /\ lookup' = LookupDelete(lookup, id)
    /\ threads' = [threads EXCEPT ![t].pc = "done"]
    /\ UNCHANGED <<precision, nextKey, removes, last, lookupMutex, pruneMutex, fatal>>

\* The rest of KNN.RemoveValue of the top level: for a stored key
\* Node.RemoveValue takes the valuesMutex of its node; lookupMutex is
\* released on return.
RemoveNode(t) ==
    /\ threads[t].op = "RemoveValue" /\ threads[t].pc = "remove"
    /\ LET id == threads[t].id
       IN /\ IF id \notin DOMAIN lookup
             THEN UNCHANGED <<nodes, lookup>>
             ELSE /\ nodes[lookup[id]].valuesMutex = 0
                  /\ nodes' = NodeRemoveValue(nodes, lookup[id], id)
                  /\ lookup' = LookupDelete(lookup, id)
    /\ lookupMutex' = Unlock(lookupMutex).mutex
    /\ fatal' = Unlock(lookupMutex).fatal
    /\ threads' = [threads EXCEPT ![t].pc = "done"]
    /\ UNCHANGED <<precision, nextKey, removes, last, pruneMutex>>

\* KNN.HasValue: the lookup under lookupMutex.RLock.
HasValueStep(t) ==
    /\ threads[t].op = "HasValue" /\ threads[t].pc = "has"
    /\ CanRLock(lookupMutex)
    /\ threads' = [threads EXCEPT ![t].pc = "done"]
    /\ UNCHANGED <<nodes, lookup, precision, nextKey, removes, last, lookupMutex,
                   pruneMutex, fatal>>

\* One iteration of the loop of KNN.Search and KNN.SearchApproximate of the
\* top level: Node.AddValuesToQueue takes the valuesMutex of a leaf with
\* RLock, which waits while a split holds it.
SearchStep(t) ==
    /\ threads[t].op \in {"Search", "SearchApproximate"} /\ threads[t].pc = "loop"
    /\ LET th == threads[t]
           popped == th.queue[PopIndex(th.queue, th.tie)]
       IN (th.queue # <<>> /\ popped.kind = "node" /\ IsLeaveNode(nodes, popped.node))
              => nodes[popped.node].valuesMutex = 0
    /\ SearchIterate(t)

\* A call of the top level returns.
TopReturn(t) ==
    /\ ~IsV3
    /\ threads[t].pc = "done"
    /\ threads' = [threads EXCEPT ![t] = Waiting(threads[t].left)]
    /\ UNCHANGED <<nodes, lookup, precision, nextKey, removes, last, lookupMutex,
                   pruneMutex, fatal>>

\* The first line of an operation of v3: a.pruneMutex.Lock() of Prune,
\* a.pruneMutex.RLock() of the others.
V3Enter(t) ==
    /\ threads[t].pc = "enter"
    /\ IF threads[t].op = "Prune"
       THEN CanLock(pruneMutex) /\ pruneMutex' = Lock(pruneMutex).mutex
       ELSE CanRLock(pruneMutex) /\ pruneMutex' = RLock(pruneMutex).mutex
    /\ threads' = [threads EXCEPT ![t].pc =
           CASE threads[t].op = "AddValue" -> "v3path"
             [] threads[t].op = "RemoveValue" -> "v3lookupLock"
             [] threads[t].op = "Prune" -> "v3prune"
             [] OTHER -> "loop"]
    /\ UNCHANGED <<nodes, lookup, precision, nextKey, removes, last, lookupMutex, fatal>>

\* KNN.AddValue of v3: the loop that builds the path.
V3AddPath(t) ==
    /\ threads[t].op = "AddValue" /\ threads[t].pc = "v3path"
    /\ LET path == V3Path(nodes, Root, LeafCell(threads[t].loc), 0, precision)
       IN /\ nodes' = path.nodes
          /\ threads' = [threads EXCEPT ![t].node = path.node, ![t].pc = "v3set"]
    /\ UNCHANGED <<lookup, precision, nextKey, removes, last, lookupMutex, pruneMutex, fatal>>

\* KNN.AddValue of v3: node.SetValue, which takes valuesMutex with Lock.
V3AddSetValue(t) ==
    /\ threads[t].op = "AddValue" /\ threads[t].pc = "v3set"
    /\ ValuesReaders(threads[t].node) = {}
    /\ nodes' = V3SetValue(nodes, threads[t].node, threads[t].id, "p",
                           LeafCell(threads[t].loc))
    /\ threads' = [threads EXCEPT ![t].pc = "v3lookup"]
    /\ UNCHANGED <<lookup, precision, nextKey, removes, last, lookupMutex, pruneMutex, fatal>>

\* KNN.AddValue of v3: the node is recorded under lookupMutex.Lock.
V3AddLookup(t) ==
    /\ threads[t].op = "AddValue" /\ threads[t].pc = "v3lookup"
    /\ CanLock(lookupMutex)
    /\ lookup' = LookupPut(lookup, threads[t].id, threads[t].node)
    /\ threads' = [threads EXCEPT ![t].pc = "done"]
    /\ UNCHANGED <<nodes, precision, nextKey, removes, last, lookupMutex, pruneMutex, fatal>>

\* KNN.RemoveValue of v3: a.lookupMutex.Lock().
V3RemoveLookupLock(t) ==
    /\ threads[t].op = "RemoveValue" /\ threads[t].pc = "v3lookupLock"
    /\ CanLock(lookupMutex)
    /\ lookupMutex' = Lock(lookupMutex).mutex
    /\ threads' = [threads EXCEPT ![t].pc = "v3remove"]
    /\ UNCHANGED <<nodes, lookup, precision, nextKey, removes, last, pruneMutex, fatal>>

\* The rest of KNN.RemoveValue of v3: for a stored key Node.RemoveValue
\* takes the valuesMutex of its node with Lock, which waits while a thread
\* read-holds it; lookupMutex is released on return.
V3RemoveNode(t) ==
    /\ threads[t].op = "RemoveValue" /\ threads[t].pc = "v3remove"
    /\ LET id == threads[t].id
       IN /\ IF id \notin DOMAIN lookup
             THEN UNCHANGED <<nodes, lookup>>
             ELSE /\ ValuesReaders(lookup[id]) = {}
                  /\ nodes' = NodeRemoveValue(nodes, lookup[id], id)
                  /\ lookup' = LookupDelete(lookup, id)
    /\ lookupMutex' = Unlock(lookupMutex).mutex
    /\ fatal' = Unlock(lookupMutex).fatal
    /\ threads' = [threads EXCEPT ![t].pc = "done"]
    /\ UNCHANGED <<precision, nextKey, removes, last, pruneMutex>>

\* The callback returns false without a call of the index.
CallbackReturn(t) ==
    /\ threads[t].pc = "callback"
    /\ threads' = [threads EXCEPT ![t].i = @ + 1,
           ![t].pc = IF threads[t].op = "SearchApproximate" THEN "filer" ELSE "loop"]
    /\ UNCHANGED <<nodes, lookup, precision, nextKey, removes, last, lookupMutex,
                   pruneMutex, fatal>>

\* KNN.Prune of v3: a.indexRoot.Prune().
V3PruneRoot(t) ==
    /\ threads[t].op = "Prune" /\ threads[t].pc = "v3prune"
    /\ nodes' = V3NodePrune(nodes, Root).nodes
    /\ threads' = [threads EXCEPT ![t].pc = "done"]
    /\ UNCHANGED <<lookup, precision, nextKey, removes, last, lookupMutex, pruneMutex, fatal>>

\* A call of v3 returns: the deferred release of pruneMutex.
V3Return(t) ==
    /\ IsV3
    /\ threads[t].pc = "done"
    /\ LET r == IF threads[t].op = "Prune" THEN Unlock(pruneMutex)
                ELSE RUnlock(pruneMutex)
       IN /\ pruneMutex' = r.mutex
          /\ fatal' = r.fatal
    /\ threads' = [threads EXCEPT ![t] = Waiting(threads[t].left)]
    /\ UNCHANGED <<nodes, lookup, precision, nextKey, removes, last, lookupMutex>>

\* The steps of thread t.
LockStep(t) ==
    \/ \E call \in TopCalls \cup V3Calls : Running /\ StartCall(t, call)
    \/ Running /\ ~IsV3 /\ AddStep(t)
    \/ Running /\ ~IsV3 /\ SearchStep(t)
    \/ Running /\ ~IsV3 /\ RemoveLookupLock(t)
    \/ Running /\ ~IsV3 /\ RemoveNode(t)
    \/ Running /\ ~IsV3 /\ HasValueStep(t)
    \/ Running /\ TopReturn(t)
    \/ Running /\ V3Enter(t)
    \/ Running /\ V3AddPath(t)
    \/ Running /\ V3AddSetValue(t)
    \/ Running /\ V3AddLookup(t)
    \/ Running /\ V3RemoveLookupLock(t)
    \/ Running /\ V3RemoveNode(t)
    \/ Running /\ IsV3 /\ (ApproximatePop(t) \/ FilerNext(t) \/ SearchPop(t))
    \/ Running /\ IsV3 /\ CallbackReturn(t)
    \/ Running /\ V3PruneRoot(t)
    \/ Running /\ V3Return(t)

NextLocks == \E t \in ThreadIds : LockStep(t)

\* The scheduler of Go lets every thread that can take a step take one.
SpecLocks == InitLocks /\ [][NextLocks]_vars /\ \A t \in ThreadIds : WF_vars(LockStep(t))

\* ------------------------------------------------------- derived notions
NodeIds == 1..Len(nodes)

KeysOf(vals) == {vals[i].key : i \in 1..Len(vals)}

\* How often a key occurs in a sequence of values.
Occurrences(vals, key) == Cardinality({i \in 1..Len(vals) : vals[i].key = key})

\* The nodes that hold a value with the key.
HoldersOf(key) == {n \in NodeIds : key \in KeysOf(nodes[n].values)}

\* A leaf has been split.
SplitHappened == Len(nodes) > 1

\* The keys whose AddValue has returned.
AddedKeys == 1..(nextKey - 1)

NonDecreasing(vals, point) ==
    \A i \in 1..Len(vals) - 1 :
        Distance(vals[i].cell, point) <= Distance(vals[i + 1].cell, point)

\* The call of thread t has returned.
Returned(t) == threads[t].pc = "done"

\* The values held by the nodes of the tree.
AllValues == UNION {{nodes[n].values[i] : i \in 1..Len(nodes[n].values)} : n \in NodeIds}

\* The smaller of two numbers.
Min(a, b) == IF a <= b THEN a ELSE b

\* The nodes of the tree ns a walk from node n over the children lists gets
\* to, n included.
RECURSIVE ReachableFrom(_, _)
ReachableFrom(ns, n) ==
    {n} \cup UNION {ReachableFrom(ns, ns[n].children[i]) : i \in 1..Len(ns[n].children)}

\* The set of the values in a sequence of values.
ValueSet(vals) == {vals[i] : i \in 1..Len(vals)}

\* The nodes of the tree ns that hold a value with the key, and the values
\* with the key in node n.
HoldersIn(ns, key) == {n \in 1..Len(ns) : key \in KeysOf(ns[n].values)}

ValuesWithKey(ns, n, key) ==
    {ns[n].values[i] : i \in {j \in 1..Len(ns[n].values) : ns[n].values[j].key = key}}

\* The steps of thread t that take the childMutex of a node: the test for
\* children and GetOrCreateChild in Node.AddValue, IsLeaveNode and
\* AddChildrenToQueueInterface in KNN.Search.
TakesChildMutex(t) ==
    \/ AddHasChildren(t)
    \/ AddDescend(t)
    \/ AddSplitNext(t)
    \/ AddSplitEnd(t)
    \/ SearchIsLeaf(t)
    \/ (SearchLoad(t) /\ ~threads[t].leaf)

\* Thread t holds the valuesMutex of some node.
HoldsValuesMutex(t) == \E n \in NodeIds : nodes[n].valuesMutex = t

\* ------------------------------------------------------------------ claims

\* C1: after any AddValue calls with distinct keys and RemoveValue calls, a
\* Search whose callback always returns false emits the values in
\* non-decreasing distance of their cell to the focal point.
C1_SearchOrdered ==
    last.op = "Search" => NonDecreasing(last.emitted, last.point)

\* C2: a Search whose callback always returns false hands every key k with
\* HasValue(k) to the callback exactly once.
C2_SearchComplete ==
    last.op = "Search" =>
        \A k \in Keys : HasValue(k) => Occurrences(last.emitted, k) = 1

\* C2 witness: a search over a split tree that holds more values than one
\* leaf takes, after a removal.
C2_Witness ==
    /\ last.op = "Search"
    /\ SplitHappened
    /\ removes > 0
    /\ Cardinality(DOMAIN lookup) > maxValuesPerCell
    /\ \A k \in DOMAIN lookup : Occurrences(last.emitted, k) = 1

\* C3: once RemoveValue(id) has returned true, no node holds a value with key
\* id and no later Search hands a value with key id to the callback.
C3_RemoveEffective ==
    \A k \in AddedKeys :
        ~HasValue(k) =>
            /\ HoldersOf(k) = {}
            /\ (last.op = "Search" => k \notin KeysOf(last.emitted))

\* C4: every key of the lookup map is held by exactly one node, the node the
\* lookup map names; keys outside the lookup map are held by no node.
C4_LookupInvariant ==
    \A k \in Keys :
        IF k \in DOMAIN lookup
        THEN /\ HoldersOf(k) = {lookup[k]}
             /\ Occurrences(nodes[lookup[k]].values, k) = 1
        ELSE HoldersOf(k) = {}

\* C5: every value of a non-root node lies in the node's cell: the ancestor
\* of the value's cell at the node's level is the node's cellID.
C5_Containment ==
    \A n \in NodeIds \ {Root} :
        \A i \in 1..Len(nodes[n].values) :
            Parent(nodes[n].values[i].cell, Level(nodes[n].cellID)) = nodes[n].cellID

\* C6: no node whose values are not locked by a split in progress has both
\* values and children, in every interleaving of concurrent AddValue calls.
C6_LeafOrInternal ==
    \A n \in NodeIds :
        nodes[n].valuesMutex = 0 =>
            ~(Len(nodes[n].values) # 0 /\ Len(nodes[n].children) # 0)

\* C7: when concurrent AddValue calls with distinct keys have all returned, a
\* Search whose callback never stops emits every added key.
C7_NoLostInsert ==
    (\A t \in DOMAIN threads : Returned(t)) =>
        \A t \in DOMAIN threads :
            threads[t].op = "AddValue" =>
                \A point \in FocalPoints, tie \in TiePolicies :
                    threads[t].id \in KeysOf(KNNSearch(nodes, point, tie))

\* C8: a Search that ran concurrently with AddValue calls has emitted every
\* value that was stored when it started.
C8_SearchSeesStored ==
    \A t \in DOMAIN threads :
        (threads[t].op = "Search" /\ Returned(t)) =>
            threads[t].stored \subseteq KeysOf(threads[t].emitted)

\* C9: every node above the maximum depth holds at most maxValuesPerCell
\* values.
C9_BoundedFanout ==
    \A n \in NodeIds :
        Level(nodes[n].cellID) < nodes[n].maxIndexDepth =>
            Len(nodes[n].values) <= maxValuesPerCell

\* C9 witness: after a split, a child above the maximum depth is exactly
\* full.
C9_Witness ==
    /\ SplitHappened
    /\ \E n \in NodeIds \ {Root} :
          /\ Level(nodes[n].cellID) < nodes[n].maxIndexDepth
          /\ Len(nodes[n].values) = maxValuesPerCell

\* C10: RemoveValue of a stored key returns true and takes exactly that one
\* entry out of the lookup map; RemoveValue of a key that is not stored (as
\* right after its removal) returns false and changes neither the lookup map
\* nor the tree; HasValue(k) becomes true only by AddValue(k), is true when
\* AddValue(k) has returned, and becomes false only by a RemoveValue that
\* returns true.
C10_RemoveIdempotent ==
    [][\A k \in Keys :
          /\ (RemoveValue(k) /\ HasValue(k)) =>
                /\ last'.ret = TRUE
                /\ Cardinality(DOMAIN lookup') = Cardinality(DOMAIN lookup) - 1
                /\ k \notin DOMAIN lookup'
          /\ (RemoveValue(k) /\ ~HasValue(k)) =>
                /\ last'.ret = FALSE
                /\ lookup' = lookup
                /\ nodes' = nodes
          /\ (\E value \in Payloads, loc \in Locations : AddValue(k, value, loc)) =>
                k \in DOMAIN lookup'
          /\ (~HasValue(k) /\ k \in DOMAIN lookup') =>
                (last'.op = "AddValue" /\ k = nextKey)
          /\ (HasValue(k) /\ k \notin DOMAIN lookup') =>
                (last'.op = "RemoveValue" /\ last'.ret = TRUE)
      ]_vars

\* C10 witness: a RemoveValue has returned false after a RemoveValue that
\* returned true.
C10_Witness ==
    /\ last.op = "RemoveValue"
    /\ last.ret = FALSE
    /\ removes > 0
    /\ \E k \in AddedKeys : ~HasValue(k)

\* C11: UpsertValue of a key that is not stored returns normally and leaves
\* the tree and the lookup map as AddValue of the same arguments would.
C11_UpsertAbsentIsAdd ==
    [][\A id \in Keys, value \in UpsertPayloads, loc \in Locations :
          (UpsertValue(id, value, loc) /\ ~HasValue(id)) =>
              /\ fatal' = FALSE
              /\ nodes' = KNNAddValue(nodes, lookup, id, value, loc).nodes
              /\ lookup' = KNNAddValue(nodes, lookup, id, value, loc).lookup
      ]_vars

\* C12: after UpsertValue of a stored key the index holds exactly one value
\* with the key, carrying the new payload and the cell of the new location;
\* the lookup map has as many entries as before and names the node holding
\* the value.
C12_UpsertPresent ==
    [][\A id \in Keys, value \in UpsertPayloads, loc \in Locations :
          (UpsertValue(id, value, loc) /\ HasValue(id)) =>
              /\ fatal' = FALSE
              /\ \E n \in 1..Len(nodes') :
                    /\ HoldersIn(nodes', id) = {n}
                    /\ Occurrences(nodes'[n].values, id) = 1
                    /\ ValuesWithKey(nodes', n, id) = {NewValue(id, value, LeafCell(loc))}
                    /\ id \in DOMAIN lookup' /\ lookup'[id] = n
              /\ Cardinality(DOMAIN lookup') = Cardinality(DOMAIN lookup)
      ]_vars

\* C13: every lock an operation takes is released by it in the mode it was
\* taken in: no operation unlocks exclusively a lock it holds shared, so no
\* call ends in a fatal error of the runtime or leaves a lock held.
C13_LockModeBalance ==
    /\ fatal = FALSE
    /\ lookupMutex = NewRWMutex
    /\ pruneMutex = NewRWMutex

\* C14: a callback that returns true once it holds k values is handed
\* exactly min(k, number of stored values) values and never called again;
\* they come in non-decreasing distance to the focal point and no value left
\* in the index is nearer than one of them.
C14_EarlyStop ==
    (last.op = "SearchWith" /\ ~last.cancelled /\ last.cb.stopAt # 0) =>
        /\ Len(last.emitted) = Min(last.cb.stopAt, Cardinality(DOMAIN lookup))
        /\ NonDecreasing(last.emitted, last.point)
        /\ \A i \in 1..Len(last.emitted) :
              \A v \in AllValues :
                  v.key \notin KeysOf(last.emitted) =>
                      Distance(last.emitted[i].cell, last.point) <= Distance(v.cell, last.point)

C16_NoValuesAfterCancel ==
    (last.op \in {"Search", "SearchApproximate"} /\ last.cb.cancelAt # 0)
        => Len(last.emitted) <= last.cb.cancelAt

\* C17: round trip.  After AddValue(k, p, lat, lng) into an index none of
\* whose values was inserted at the maximum-level cell of (lat, lng), a
\* Search from (lat, lng) whose callback stops at the first value hands over
\* the value with key k and payload p, whatever the queue does with equal
\* priorities, also when the AddValue split a leaf.  (Before the first split
\* every stored value carries the cell it was inserted at.)
C17_RoundTrip ==
    [][\A id \in Keys, value \in Payloads, loc \in Locations :
          (/\ AddValue(id, value, loc)
           /\ ~SplitHappened
           /\ \A v \in AllValues : v.cell # LeafCell(loc))
          => \A tie \in TiePolicies :
                LET got == KNNSearchCtx(nodes', loc, tie, FALSE, Callback(1, 0))
                IN Len(got) = 1 /\ got[1].key = id /\ got[1].value = value
      ]_vars

\* C18: Prune preserves values.  For every tree shape and precision, a full
\* Search (callback never stops) hands over the same set of values right
\* before and right after Prune, and after Prune every lookup entry refers
\* to a node reachable from the root.
C18_PrunePreservesValues ==
    [][V3Prune =>
          /\ \A point \in V3FocalPoints, tie \in TiePolicies :
                ValueSet(V3KNNSearch(nodes', point, tie, FALSE, Callback(0, 0)))
                    = ValueSet(V3KNNSearch(nodes, point, tie, FALSE, Callback(0, 0)))
          /\ \A id \in DOMAIN lookup' : lookup'[id] \in ReachableFrom(nodes', Root)
      ]_vars

\* C19: Prune completeness.  For every precision >= 1, once values have been
\* added and all of them removed again, a Prune leaves the root with zero
\* children.
C19_PruneCompleteness ==
    (last.op = "Prune" /\ precision >= 1 /\ nextKey > 1 /\ DOMAIN lookup = {})
        => Len(nodes[Root].children) = 0

\* The threads between taking and releasing pruneMutex.
InPruneSection(t) == threads[t].pc \in {"section", "return"}

\* C20: Prune exclusivity.  While a thread is in Prune between taking and
\* releasing the prune lock, no other thread is inside the section of an
\* AddValue, RemoveValue, Search, SearchApproximate or Prune, and no lock
\* operation has failed.
C20_PruneExclusive ==
    /\ fatal = FALSE
    /\ \A t \in ThreadIds :
          (threads # <<>> /\ threads[t].op = "Prune" /\ InPruneSection(t))
              => \A u \in ThreadIds \ {t} : ~InPruneSection(u)

\* An AddValue and a search are inside their sections at the same time, and
\* so are a RemoveValue and a search.
C20_Witness ==
    /\ threads # <<>>
    /\ \E t, u \in ThreadIds :
          /\ threads[t] = PruneThread("AddValue", "section")
          /\ threads[u].op \in {"Search", "SearchApproximate", "RemoveValue"}
          /\ threads[u].pc = "section"
          /\ pruneMutex.readers = 2
          /\ DOMAIN lookup # {}

\* C21: lock ordering.  Locks are taken in the order prune lock, lookup
\* lock, child lock of a node, values lock of a node: no thread takes a
\* childMutex while it holds a valuesMutex, a split in AddValue included.
C21_LockOrder ==
    [][\A t \in ThreadIds : TakesChildMutex(t) => ~HoldsValuesMutex(t)]_vars

\* C22: GetOrCreateChild is idempotent under concurrency.  In every
\* reachable state no two children of a node share a cellID, and every call
\* that has returned has returned the one child of its node with its cellID.
C22_ChildIdempotent ==
    /\ \A n \in NodeIds : \A i, j \in 1..Len(nodes[n].children) :
          nodes[nodes[n].children[i]].cellID = nodes[nodes[n].children[j]].cellID
              => i = j
    /\ \A t \in DOMAIN threads :
          threads[t].pc = "done" =>
              /\ nodes[threads[t].ret].cellID = threads[t].cellID
              /\ \E i \in 1..Len(nodes[threads[t].node].children) :
                    nodes[threads[t].node].children[i] = threads[t].ret

\* Two threads called GetOrCreateChild with the same cellID on the same
\* node, both scans found no child, and both calls have returned.
C22_Witness ==
    /\ threads # <<>>
    /\ \E t, u \in ThreadIds :
          /\ t # u
          /\ threads[t].pc = "done" /\ threads[u].pc = "done"
          /\ threads[t].node = threads[u].node
          /\ threads[t].cellID = threads[u].cellID
          /\ threads[t].ret = threads[u].ret
          /\ last.op = "GetOrCreateChild" /\ last.raced

\* C23: the callback runs without node locks.  While the callback of a
\* Search or SearchApproximate executes, the searching thread holds no
\* valuesMutex, so the RemoveValue the callback calls never waits for a
\* lock its own thread holds.
C23_CallbackWithoutNodeLocks ==
    \A t \in DOMAIN threads :
        threads[t].pc \in {"callback", "remove"} => threads[t].rlocked = 0

\* C24: no data race on node state.  A thread that writes the values of a
\* node holds the node's valuesMutex exclusively, a thread that reads or
\* writes the children holds its childMutex, and no writer of a field of a
\* node is in its accesses together with another reader or writer of the
\* same field of the same node.
C24_NoDataRace ==
    \A t \in DOMAIN threads :
        threads[t].pc = "in" =>
            /\ "values" \in WritesOf(threads[t].op) => ValuesLockOf(threads[t].op) = "W"
            /\ "children" \in ReadsOf(threads[t].op) \cup WritesOf(threads[t].op)
                   => ChildLockOf(threads[t].op) # "none"
            /\ \A u \in OthersIn(t, threads[t].node) :
                   WritesOf(threads[t].op)
                       \cap (ReadsOf(threads[u].op) \cup WritesOf(threads[u].op)) = {}

\* C25: SearchApproximate of the top-level index hands over values in
\* non-decreasing distance of their cells to the focal point, with a
\* callback that stops after a number of values and with one that never
\* stops, after any sequence of AddValue with distinct keys.
C25_ApproximateOrdered ==
    last.op = "SearchApproximate" => NonDecreasing(last.emitted, last.point)

\* C26: the approximate search is leaf-grouped.  The values of a leaf are
\* handed to the callback one after the other, with no value of another
\* leaf between them, and each value at most once.
C26_LeafGrouped ==
    last.op = "SearchApproximate" =>
        LET e == last.emitted
            leaf(i) == HoldersIn(nodes, e[i].key)
        IN /\ \A i, j \in 1..Len(e) : e[i].key = e[j].key => i = j
           /\ \A i, j, k \in 1..Len(e) :
                 (i < j /\ j < k /\ leaf(i) = leaf(k)) => leaf(j) = leaf(i)

\* C27: constructor validation.  NewKNN(p) returns an index (a root of
\* maximum depth p without values and children, an empty lookup map) and no
\* error if and only if 0 <= p <= 30; otherwise it returns no index and an
\* error with the message "invalid precision p: precision must be between 0
\* and 30".
C27_ConstructorValidation ==
    last.op = "NewKNN" =>
        IF 0 <= last.p /\ last.p <= 30
        THEN /\ last.err = <<>>
             /\ last.index = <<[nodes |-> <<NewRoot(last.p)>>, lookup |-> <<>>]>>
             /\ precision = last.p
        ELSE /\ last.index = <<>>
             /\ last.err = <<"invalid precision " \o ToString(last.p)
                               \o ": precision must be between 0 and 30">>

\* The largest valid precision has been accepted.
C27_Witness ==
    /\ last.op = "NewKNN" /\ last.p = 30
    /\ last.err = <<>> /\ nodes = <<NewRoot(30)>>

\* C28: coordinate validation in AddValue.  The body of a call panics with
\* the coordinate diagnostic if and only if lat < -90 or lat > 90 or
\* lng < -180 or lng > 180 (the boundary values are accepted and the value is
\* stored); a panicking call leaves the tree and the lookup map unchanged and
\* gives back the shared prune lock it took; no panic is a fatal error, and
\* when no call is in progress no lock is held.
C28_CoordinateValidation ==
    /\ [][\A t \in ThreadIds :
            (threads[t].pc = "section" /\ threads'[t] # threads[t]) =>
                LET lat == threads[t].lat
                    lng == threads[t].long
                IN IF lat < -90 \/ lat > 90 \/ lng < -180 \/ lng > 180
                   THEN /\ last'.panic =
                              <<"invalid latitude " \o ToString(lat)
                                 \o ".000000 (Min:-90, Max 90) or longitude "
                                 \o ToString(lng) \o ".000000 (Min: -180, Max 180)">>
                        /\ nodes' = nodes /\ lookup' = lookup
                        /\ threads'[t].pc = "idle"
                        /\ lookupMutex' = lookupMutex
                        /\ IsV3 => pruneMutex'.readers = pruneMutex.readers - 1
                        /\ ~IsV3 => pruneMutex' = pruneMutex
                   ELSE /\ last'.panic = <<>>
                        /\ threads[t].id \in DOMAIN lookup' \ DOMAIN lookup]_vars
    /\ [](~fatal /\ ((\A t \in ThreadIds : threads[t].pc = "idle")
                        => pruneMutex = NewRWMutex /\ lookupMutex = NewRWMutex))

\* A call of the v3 index has panicked while another call, whose latitude is
\* the boundary 90, holds the prune lock: one read lock is left.
C28_Witness ==
    /\ IsV3 /\ last.op = "AddValue" /\ last.panic # <<>>
    /\ pruneMutex.readers = 1
    /\ \E t \in ThreadIds : threads[t].pc = "section" /\ threads[t].lat = 90

\* C29: no split below the threshold.  While at most maxValuesPerCell = 8
\* values with distinct keys have been added to a fresh top-level index, for
\* any precision and any locations, the root holds all of them in the order
\* they were added (each AddValue appends its value, with its leaf cell, to
\* the root's values), the root has no children, and the lookup map has
\* exactly one entry per added key.
C29_NoSplitBelowThreshold ==
    /\ [](nextKey - 1 <= 8 =>
            /\ Len(nodes) = 1 /\ nodes[Root].children = <<>>
            /\ Len(nodes[Root].values) = nextKey - 1
            /\ \A i \in 1..(nextKey - 1) : nodes[Root].values[i].key = i
            /\ DOMAIN lookup = 1..(nextKey - 1)
            /\ \A k \in DOMAIN lookup : lookup[k] = Root)
    /\ [][nextKey <= 8 =>
            \E value \in Payloads, loc \in Locations :
                nodes'[Root].values =
                    Append(nodes[Root].values, [key |-> nextKey, value |-> value,
                                                cell |-> LeafCell(loc)])]_vars

\* Eight values at two different locations are in the root of an index
\* whose precision allows a split.
C29_Witness ==
    /\ precision >= 1 /\ nextKey = 9
    /\ Len(nodes[Root].values) = 8 /\ nodes[Root].children = <<>>
    /\ nodes[Root].values[1].cell # nodes[Root].values[8].cell

\* C30: split preserves stored values.  Every AddValue, a splitting one
\* included, leaves each value already in the tree in the tree with its key,
\* payload and cell, and adds the new value with its leaf cell to the node
\* the lookup map then names: the (key, payload, cell) triples in the tree
\* are the triples that were added.
C30_SplitPreservesValues ==
    [][\E value \in Payloads, loc \in Locations :
          /\ AllValues' = AllValues \cup {[key |-> nextKey, value |-> value,
                                           cell |-> LeafCell(loc)]}
          /\ nextKey \in KeysOf(nodes'[lookup'[nextKey]].values)]_vars

\* C31: AddValue terminates.  Every call of AddValue returns, also when more
\* than maxValuesPerCell values share one cell of the finest level; the
\* activations of Node.AddValue on a thread's stack are on nodes of strictly
\* increasing level, none deeper than the maximum depth of the index.
C31_AddValueTerminates ==
    /\ \A t \in ThreadIds : [](threads[t].op = "AddValue" => <>Returned(t))
    /\ [](\A t \in ThreadIds : threads[t].op = "AddValue" =>
            \A i \in 1..Len(threads[t].stack) :
                /\ Level(nodes[threads[t].stack[i].node].cellID) <= precision
                /\ i > 1 => Level(nodes[threads[t].stack[i].node].cellID)
                               > Level(nodes[threads[t].stack[i - 1].node].cellID))

\* Two calls of AddValue have returned and a leaf at the maximum depth of an
\* index that splits holds more than maxValuesPerCell values.
C31_Witness ==
    /\ precision >= 1
    /\ \A t \in ThreadIds : threads[t].op = "AddValue" /\ Returned(t)
    /\ \E n \in NodeIds : /\ Level(nodes[n].cellID) = precision
                          /\ Len(nodes[n].values) > maxValuesPerCell

\* C32: node-level removal is local.  A RemoveValue of a stored key calls
\* Node.RemoveValue(key) on the node the lookup map names.  If the node holds
\* a value with the key, one such value is replaced by the node's last value
\* and the list is one shorter, every other value staying as it is; if it
\* holds none, its values are unchanged.  The node's children and every
\* other node are unchanged, and no node is created or removed.
C32_RemoveLocal ==
    [][\A id \in DOMAIN lookup \ DOMAIN lookup' :
          LET n == lookup[id]
              vals == nodes[n].values
              after == nodes'[n].values
          IN /\ Len(nodes') = Len(nodes)
             /\ \A m \in 1..Len(nodes) : m # n => nodes'[m] = nodes[m]
             /\ nodes'[n] = [nodes[n] EXCEPT !.values = after]
             /\ IF \A i \in 1..Len(vals) : vals[i].key # id
                THEN after = vals
                ELSE \E i \in 1..Len(vals) :
                        /\ vals[i].key = id
                        /\ after = [j \in 1..(Len(vals) - 1) |->
                                      IF j = i THEN vals[Len(vals)] ELSE vals[j]]]_vars

\* RemoveValue has removed the first value of the root, and the last value
\* has taken its place.
C32_Witness ==
    /\ last.op = "RemoveValue" /\ last.ret
    /\ 1 \notin DOMAIN lookup
    /\ Len(nodes) = 1 /\ Len(nodes[Root].values) >= 2
    /\ nodes[Root].values[1].key = Len(nodes[Root].values) + 1

\* C33: Search terminates.  With no concurrent mutation, an uncancelled
\* context and a callback that never stops, every Search and every
\* SearchApproximate returns; no node and no value is pushed into the
\* priority queue twice, so there are at most as many pushes as the tree has
\* nodes and values; and the search returns with an empty queue.
C33_SearchTerminates ==
    /\ [](threads[1].pc = "loop" => <>Returned(1))
    /\ [](threads[1].pc = "loop" =>
            LET pushed == threads[1].pushed
            IN /\ \A i, j \in 1..Len(pushed) : i # j => pushed[i] # pushed[j]
               /\ Len(pushed) <= Len(nodes) + Cardinality(AllValues))
    /\ [](Returned(1) => threads[1].queue = <<>>)

\* A search of a tree with children has returned after pushing every node
\* and every value and handing every value to the callback.
C33_Witness ==
    /\ Returned(1) /\ threads[1].op = "SearchApproximate"
    /\ Len(nodes) >= 3
    /\ Len(threads[1].pushed) = Len(nodes) + Cardinality(AllValues)
    /\ Len(threads[1].emitted) = Cardinality(AllValues)

\* C35: path invariant.  The root has no parent, and every node whose
\* parent is not the root has a cell one level below its parent's cell and
\* inside it.
C35_PathInvariant ==
    /\ nodes[Root].parent = 0
    /\ \A c \in NodeIds \ {Root} :
          LET p == nodes[c].parent
          IN p # Root =>
                /\ Level(nodes[c].cellID) = Level(nodes[p].cellID) + 1
                /\ Parent(nodes[c].cellID, Level(nodes[p].cellID)) = nodes[p].cellID

\* C36: every valid precision works.  When one value has been added to a
\* fresh index and is stored, a search with a context that is not cancelled
\* and a callback that never stops hands the value to the callback.
C36_EveryPrecisionWorks ==
    (/\ last.op \in {"Search", "SearchApproximate"}
     /\ ~last.cancelled /\ last.cb = Callback(0, 0)
     /\ nextKey = 2 /\ 1 \in DOMAIN lookup)
        => 1 \in KeysOf(last.emitted)

\* C37: eager collapse in v1.  With a precision of at least 1, every node
\* other than the root that the root reaches has a value or a child; when
\* no value is stored, the root has no children and the lookup map is empty;
\* and the root is never detached.
C37_EagerCollapse ==
    precision >= 1 =>
        /\ \A n \in ReachableFrom(nodes, Root) \ {Root} :
              DOMAIN nodes[n].values # {} \/ Len(nodes[n].children) > 0
        /\ \A k \in DOMAIN lookup : /\ lookup[k] \in ReachableFrom(nodes, Root)
                                     /\ k \in DOMAIN nodes[lookup[k]].values
        /\ (\A n \in NodeIds : DOMAIN nodes[n].values = {}) =>
              (nodes[Root].children = <<>> /\ DOMAIN lookup = {})

\* The last stored value of an index of depth 2 has been removed: the
\* nodes of its path are detached and the root has no children.
C37_Witness ==
    /\ precision = 2
    /\ last.op = "RemoveValue" /\ last.ret
    /\ Len(nodes) >= 3
    /\ nodes[Root].children = <<>> /\ DOMAIN lookup = {}

\* C38: filter semantics of the v1 search.  The result is, in the order the
\* filter was asked, the payloads it answered with Continue; a payload
\* answered with Skip is left out and the search goes on; the filter is
\* asked about no payload twice and about none after its first Stop, which
\* is not in the result.
C38_FilterSemantics ==
    last.op = "Search" =>
        LET asked == last.asked
            continued == {i \in 1..Len(asked) : last.filter[asked[i]] = "Continue"}
            before(i) == Cardinality({j \in continued : j < i})
        IN /\ \A i, j \in 1..Len(asked) : i # j => asked[i] # asked[j]
           /\ \A i \in 1..(Len(asked) - 1) : last.filter[asked[i]] # "Stop"
           /\ Len(last.results) = Cardinality(continued)
           /\ \A i \in continued : last.results[before(i) + 1] = asked[i]
           /\ (\A v \in V3Keys : last.filter[v] # "Stop") =>
                 {asked[i] : i \in 1..Len(asked)}
                     = UNION {{nodes[n].values[k] : k \in DOMAIN nodes[n].values} :
                                n \in {m \in ReachableFrom(nodes, Root) :
                                          nodes[m].isLeaveNode}}

\* A search has skipped one payload, taken the next and stopped at the
\* third.
C38_Witness ==
    /\ last.op = "Search" /\ Len(last.asked) = 3 /\ Len(last.results) = 1
    /\ last.filter[last.asked[1]] = "Skip"
    /\ last.filter[last.asked[2]] = "Continue"
    /\ last.filter[last.asked[3]] = "Stop"

\* C39: snapshot isolation in v1.  A thread in Search holds the lock of the
\* index in shared mode until it returns, and a thread in the body of
\* AddValue or RemoveValue holds it exclusively; no step changes the tree or
\* the lookup map while a thread is in Search; and what a Search returns is
\* what a search of the index as it is at the return delivers.
C39_SnapshotIsolation ==
    /\ [](\A t \in ThreadIds :
            /\ threads[t].op = "Search" =>
                  (lookupMutex.readers >= 1 /\ ~lookupMutex.writer)
            /\ threads[t].op \in {"AddValue", "RemoveValue"} =>
                  (lookupMutex.writer /\ lookupMutex.readers = 0)
            /\ (threads[t].op = "Search" /\ threads[t].pc = "return") =>
                  threads[t].results =
                      V1KNNSearch(nodes, threads[t].point, threads[t].tie,
                                  threads[t].order, threads[t].filter).results)
    /\ []~fatal
    /\ [][(\E t \in ThreadIds : threads[t].op = "Search")
            => (nodes' = nodes /\ lookup' = lookup)]_vars

\* A search that found two values is about to return while another search
\* is in its loop.
C39_Witness ==
    /\ lookupMutex.readers = 2
    /\ \E t, u \in ThreadIds :
          /\ threads[t].op = "Search" /\ threads[t].pc = "return"
          /\ Len(threads[t].results) >= 2
          /\ threads[u].op = "Search" /\ threads[u].pc = "loop"

\* C34: deadlock freedom.  With callbacks that make no call and a fair
\* scheduler the threads get through all their calls, so every call
\* returns; in no state are all the threads that have not finished their
\* calls unable to take a step; the runtime never stops the process; a
\* thread between two calls holds no valuesMutex, and when no call is in
\* progress lookupMutex and pruneMutex are free.
C34_DeadlockFreedom ==
    /\ <>[](\A t \in ThreadIds : threads[t].pc = "idle" /\ threads[t].left = 0)
    /\ []((\E t \in ThreadIds : ~(threads[t].pc = "idle" /\ threads[t].left = 0))
            => \E t \in ThreadIds : ENABLED LockStep(t))
    /\ []~fatal
    /\ [](\A t \in ThreadIds : threads[t].pc = "idle" =>
            /\ threads[t].rlocked = 0
            /\ IsV3 \/ \A n \in DOMAIN nodes : nodes[n].valuesMutex # t)
    /\ []((\A t \in ThreadIds : threads[t].pc = "idle")
            => (lookupMutex = NewRWMutex /\ pruneMutex = NewRWMutex))

\* A RemoveValue of v3 holds pruneMutex and lookupMutex and waits for the
\* valuesMutex of a leaf, which a SearchApproximate read-holds while its
\* callback runs.
C34_Witness ==
    \E t, u \in ThreadIds :
        /\ threads[t].op = "RemoveValue" /\ threads[t].pc = "v3remove"
        /\ threads[t].id \in DOMAIN lookup
        /\ threads[u].op = "SearchApproximate" /\ threads[u].pc = "callback"
        /\ threads[u].rlocked = lookup[threads[t].id]
        /\ ~ENABLED LockStep(t)

====
